---- MODULE Spec2Model ----
(***************************************************************************)
(* Model of the cleaning-and-validation engine of the hospital ETL:        *)
(*   validators/integrity_validator.py  (IntegrityValidator)               *)
(*   scripts/02_limpieza.py             (DataCleaner)                      *)
(* A DataFrame is [columns |-> set of names, rows |-> sequence of rows],   *)
(* a row being a record over the columns.  A cell is <<>> (NaN/None/NaT)   *)
(* or <<v>>.  A Python string that the code splits or parses is a sequence *)
(* of one-character strings; a Timestamp is [year, month, day].            *)
(***************************************************************************)
EXTENDS Integers, Sequences, FiniteSets, TLC

VARIABLES
    pacientes,    \* patient DataFrame
    citas,        \* appointment DataFrame
    hoy,          \* the processing date, pd.Timestamp.now() / date.today()
    resultados,   \* result returned by the last validator call
    fecha_str,    \* argument of corregir_fecha_inteligente
    fecha_res,    \* its return value
    df_pacientes, \* DataCleaner.df_pacientes, the cleaner's copy
    df_citas,     \* DataCleaner.df_citas, the cleaner's copy
    paso,         \* which passes this cleaner has run, and on which round
    validador,    \* the validator instance under test: its fields, its last return
    orquestador   \* the PipelineOrchestrator and the position of its run()

limpiador == <<df_pacientes, df_citas, paso>>

\* no DataValidator has been constructed
SinValidador == [df |-> <<>>]

\* no PipelineOrchestrator has been constructed
SinOrquestador == [pc |-> "ninguno"]

\* a cleaner just constructed on raw tables
Creado == [vuelta |-> 1, pacientes |-> FALSE, citas |-> FALSE]

vars == <<pacientes, citas, hoy, resultados, fecha_str, fecha_res, df_pacientes, df_citas, paso,
         validador, orquestador>>

\* ----------------------------------------------------------------- bounds
MaxPacientes == 2
MaxCitas == 2
MaxColumna == 3

\* ------------------------------------------------------------------ cells
NaN == <<>>
isna(x) == x = <<>>
notna(x) == x # <<>>

Min(a, b) == IF a <= b THEN a ELSE b

\* df[column]: the Series of a column
Columna(df, column) == [i \in 1..Len(df.rows) |-> df.rows[i][column]]

\* a Series' count of True
Sum(mask) == Cardinality({i \in DOMAIN mask : mask[i]})

\* set(series.dropna().unique())
dropna_unique(series) == {series[i][1] : i \in {j \in DOMAIN series : notna(series[j])}}

\* df.duplicated(subset=[column]).sum(): rows equal, on column, to an earlier row
duplicated_sum(df, column) ==
    Cardinality({i \in 1..Len(df.rows) :
                    \E j \in 1..(i - 1) : df.rows[j][column] = df.rows[i][column]})

\* --------------------------------------------------------------- calendar
IsLeap(y) == (y % 4 = 0 /\ y % 100 # 0) \/ y % 400 = 0

DaysInMonth(y, m) ==
    IF m \in {4, 6, 9, 11} THEN 30
    ELSE IF m = 2 THEN (IF IsLeap(y) THEN 29 ELSE 28)
    ELSE 31

\* a (year, month, day) the calendar holds; what Timestamp construction accepts
IsCalendarDate(y, m, d) ==
    /\ y >= 1 /\ m \in 1..12
    /\ d >= 1 /\ d <= DaysInMonth(y, m)

RECURSIVE DaysBeforeMonth(_, _)
DaysBeforeMonth(y, m) ==
    IF m <= 1 THEN 0 ELSE DaysBeforeMonth(y, m - 1) + DaysInMonth(y, m - 1)

DaysBeforeYear(y) ==
    (y - 1) * 365 + ((y - 1) \div 4) - ((y - 1) \div 100) + ((y - 1) \div 400)

\* proleptic Gregorian ordinal of a Timestamp at midnight
ToOrdinal(ts) == DaysBeforeYear(ts.year) + DaysBeforeMonth(ts.year, ts.month) + ts.day

Timestamp(y, m, d) == [year |-> y, month |-> m, day |-> d]

\* ---------------------------------------------------------------- strings
Digits == <<"0", "1", "2", "3", "4", "5", "6", "7", "8", "9">>

IsDigit(c) == \E k \in 1..10 : Digits[k] = c

DigitVal(c) == (CHOOSE k \in 1..10 : Digits[k] = c) - 1

DigitChar(n) == Digits[n + 1]

\* f"{n:02d}" and f"{n}" for the year (four digits in this model)
Fmt02d(n) ==
    IF n < 100 THEN <<DigitChar(n \div 10), DigitChar(n % 10)>>
    ELSE <<DigitChar(n \div 100), DigitChar((n \div 10) % 10), DigitChar(n % 10)>>

Fmt4d(n) ==
    <<DigitChar(n \div 1000), DigitChar((n \div 100) % 10),
      DigitChar((n \div 10) % 10), DigitChar(n % 10)>>

\* f"{año}-{mes:02d}-{dia:02d}" with a given separator
FmtFecha(y, sep, a, b) == Fmt4d(y) \o <<sep>> \o Fmt02d(a) \o <<sep>> \o Fmt02d(b)

\* re.split(r'[-/\.]', s)
RECURSIVE re_split(_, _)
re_split(s, seps) ==
    IF \A i \in 1..Len(s) : s[i] \notin seps THEN <<s>>
    ELSE LET k == CHOOSE i \in 1..Len(s) :
                     /\ s[i] \in seps
                     /\ \A j \in 1..(i - 1) : s[j] \notin seps
         IN <<SubSeq(s, 1, k - 1)>> \o re_split(SubSeq(s, k + 1, Len(s)), seps)

\* int(part): <<n>>, or <<>> when int() raises ValueError
RECURSIVE DecimalValue(_)
DecimalValue(part) ==
    IF Len(part) = 0 THEN 0
    ELSE 10 * DecimalValue(SubSeq(part, 1, Len(part) - 1)) + DigitVal(part[Len(part)])

int(part) ==
    IF Len(part) > 0 /\ \A i \in 1..Len(part) : IsDigit(part[i])
    THEN <<DecimalValue(part)>>
    ELSE NaN

\* strict parse with format '%Y-%m-%d': <<Timestamp>> or NaT
strptime_Ymd(s) ==
    LET partes == re_split(s, {"-"})
    IN IF /\ Len(partes) = 3
          /\ Len(partes[1]) = 4
          /\ Len(partes[2]) \in 1..2
          /\ Len(partes[3]) \in 1..2
          /\ \A k \in 1..3 : notna(int(partes[k]))
          /\ IsCalendarDate(int(partes[1])[1], int(partes[2])[1], int(partes[3])[1])
       THEN <<Timestamp(int(partes[1])[1], int(partes[2])[1], int(partes[3])[1])>>
       ELSE NaN

\* a date cell holds a string (read from CSV/JSON) or a Timestamp
StrCell(s) == <<[kind |-> "str", chars |-> s]>>
TsCell(ts) == <<[kind |-> "ts", ts |-> ts]>>

\* pd.to_datetime(cell, errors='coerce')
to_datetime(cell) ==
    IF isna(cell) THEN NaN
    ELSE IF cell[1].kind = "ts" THEN <<cell[1].ts>>
    ELSE strptime_Ymd(cell[1].chars)

\* a pandas DataFrame: its column labels and its rows in index order
DataFrame(columns, rows) == [columns |-> columns, rows |-> rows]

\* ------------------------------------------------------ IntegrityValidator
\* mutant: the set difference taken the wrong way round
validate_foreign_keys_swapped(child_df, child_column, parent_df, parent_column) ==
    IF child_column \notin child_df.columns \/ parent_column \notin parent_df.columns
    THEN [passed |-> FALSE, message |-> "Columna no encontrada",
          invalid_references |-> 0, invalid_ids |-> {}]
    ELSE LET child_values == dropna_unique(Columna(child_df, child_column))
             parent_values == dropna_unique(Columna(parent_df, parent_column))
             invalid_references == parent_values \ child_values
         IN [passed |-> Cardinality(invalid_references) = 0,
             message |-> "",
             invalid_references |-> Cardinality(invalid_references),
             invalid_ids |-> invalid_references]

\* validate_foreign_keys(child_df, child_column, parent_df, parent_column)
validate_foreign_keys(child_df, child_column, parent_df, parent_column) ==
    IF child_column \notin child_df.columns
    THEN [passed |-> FALSE,
          message |-> "Columna " \o child_column \o " no encontrada en DataFrame hijo",
          invalid_references |-> 0,
          invalid_ids |-> {}]
    ELSE IF parent_column \notin parent_df.columns
    THEN [passed |-> FALSE,
          message |-> "Columna " \o parent_column \o " no encontrada en DataFrame padre",
          invalid_references |-> 0,
          invalid_ids |-> {}]
    ELSE LET child_values == dropna_unique(Columna(child_df, child_column))
             parent_values == dropna_unique(Columna(parent_df, parent_column))
             invalid_references == child_values \ parent_values
             invalid_count == Cardinality(invalid_references)
         IN [passed |-> invalid_count = 0,
             message |-> IF invalid_count > 0
                         THEN ToString(invalid_count) \o " referencias inválidas encontradas"
                         ELSE "Todas las referencias son válidas",
             invalid_references |-> invalid_count,
             invalid_ids |-> invalid_references]

\* mutant: unparseable dates are counted but tolerated
validate_date_coherence_tolerant(df, date_column, max_future_days, now) ==
    IF date_column \notin df.columns
    THEN [passed |-> FALSE, message |-> "", future_dates |-> 0, invalid_dates |-> 0]
    ELSE LET max_future_date == ToOrdinal(now) + max_future_days
             date_series == [i \in 1..Len(df.rows) |-> to_datetime(df.rows[i][date_column])]
             future_count == Sum([i \in 1..Len(df.rows) |->
                                     /\ notna(date_series[i])
                                     /\ ToOrdinal(date_series[i][1]) > max_future_date])
             invalid_count == Sum([i \in 1..Len(df.rows) |-> isna(date_series[i])])
         IN [passed |-> future_count = 0,
             message |-> "",
             future_dates |-> future_count,
             invalid_dates |-> invalid_count,
             problematic_dates |-> {},
             total_records |-> Len(df.rows)]

\* validate_date_coherence(df, date_column, max_future_days), run on the day `now`
validate_date_coherence(df, date_column, max_future_days, now) ==
    IF date_column \notin df.columns
    THEN [passed |-> FALSE,
          message |-> "Columna " \o date_column \o " no encontrada",
          future_dates |-> 0,
          invalid_dates |-> 0]
    ELSE LET today == ToOrdinal(now)
             max_future_date == today + max_future_days
             date_series == [i \in 1..Len(df.rows) |-> to_datetime(df.rows[i][date_column])]
             future_mask == [i \in 1..Len(df.rows) |->
                                /\ notna(date_series[i])
                                /\ ToOrdinal(date_series[i][1]) > max_future_date]
             future_count == Sum(future_mask)
             invalid_count == Sum([i \in 1..Len(df.rows) |-> isna(date_series[i])])
         IN [passed |-> (future_count = 0) /\ (invalid_count = 0),
             message |-> ToString(future_count) \o " fechas futuras extremas, "
                         \o ToString(invalid_count) \o " fechas inválidas",
             future_dates |-> future_count,
             invalid_dates |-> invalid_count,
             problematic_dates |-> {df.rows[i][date_column] :
                                        i \in {j \in 1..Len(df.rows) : future_mask[j]}},
             total_records |-> Len(df.rows)]

\* Series.isin(valid_values): False for NaN
isin(cell, valid_values) == notna(cell) /\ cell[1] \in valid_values

\* mutant: nulls are skipped instead of counted as invalid
validate_column_values_skipna(df, column, valid_values) ==
    IF column \notin df.columns
    THEN [passed |-> FALSE, message |-> "", invalid_count |-> 0, invalid_values |-> {}]
    ELSE LET invalid_mask == [i \in 1..Len(df.rows) |->
                                 /\ notna(df.rows[i][column])
                                 /\ ~isin(df.rows[i][column], valid_values)]
             invalid_count == Sum(invalid_mask)
         IN [passed |-> invalid_count = 0,
             message |-> "",
             invalid_count |-> invalid_count,
             invalid_values |-> {df.rows[i][column] :
                                    i \in {j \in 1..Len(df.rows) : invalid_mask[j]}},
             valid_values_count |-> Len(df.rows) - invalid_count]

\* validate_column_values(df, column, valid_values)
validate_column_values(df, column, valid_values) ==
    IF column \notin df.columns
    THEN [passed |-> FALSE,
          message |-> "Columna " \o column \o " no encontrada",
          invalid_count |-> 0,
          invalid_values |-> {}]
    ELSE LET invalid_mask == [i \in 1..Len(df.rows) |->
                                 \/ ~isin(df.rows[i][column], valid_values)
                                 \/ isna(df.rows[i][column])]
             invalid_count == Sum(invalid_mask)
         IN [passed |-> invalid_count = 0,
             message |-> ToString(invalid_count) \o " valores inválidos en columna " \o column,
             invalid_count |-> invalid_count,
             invalid_values |-> {df.rows[i][column] :
                                    i \in {j \in 1..Len(df.rows) : invalid_mask[j]}},
             valid_values_count |-> Len(df.rows) - invalid_count]

\* validate_numeric_range(df, column, min_val, max_val); a bound is <<n>> or None
validate_numeric_range(df, column, min_val, max_val) ==
    IF column \notin df.columns
    THEN [passed |-> FALSE,
          message |-> "Columna " \o column \o " no encontrada",
          out_of_range |-> 0]
    ELSE LET numeric_series == Columna(df, column)
             out_of_range_mask == [i \in 1..Len(df.rows) |->
                 \/ /\ notna(min_val) /\ notna(numeric_series[i])
                    /\ numeric_series[i][1] < min_val[1]
                 \/ /\ notna(max_val) /\ notna(numeric_series[i])
                    /\ numeric_series[i][1] > max_val[1]]
             out_of_range_count == Sum(out_of_range_mask)
         IN [passed |-> out_of_range_count = 0,
             message |-> ToString(out_of_range_count) \o " valores fuera de rango en " \o column,
             out_of_range |-> out_of_range_count,
             min_val |-> min_val,
             max_val |-> max_val]

estados_validos == {"Programada", "Completada", "Cancelada", "Reprogramada", "No Programada"}

especialidades_validas == {"Cardiología", "Neurología", "Pediatría", "Ginecología", "Ortopedia"}

\* max_future_days = 365*2 in validate_all_integrity
MaxFutureDays == 730

EdadMin == 0
EdadMax == 120

\* mutant: the referential check no longer gates the overall result
GatesOverall_sinReferencial(test) == test \in {"coherencia_fechas"}

\* mutant: the two value-set checks gate the overall result as well
GatesOverall_conValores(test) ==
    test \in {"referencial_pacientes", "coherencia_fechas", "estados_cita", "especialidades"}

\* the checks of validate_all_integrity whose failure sets overall_passed = False
GatesOverall(test) == test \in {"referencial_pacientes", "coherencia_fechas"}

\* one bookkeeping step of validate_all_integrity: count the test and, when
\* it failed and gates the overall result, clear overall_passed
Registrar(r, test, passed) ==
    [overall_passed |-> r.overall_passed /\ (passed \/ ~GatesOverall(test)),
     summary |-> [total_tests |-> r.summary.total_tests + 1,
                  passed_tests |-> r.summary.passed_tests + (IF passed THEN 1 ELSE 0),
                  failed_tests |-> r.summary.failed_tests + (IF passed THEN 0 ELSE 1)]]

\* the sub-result of one duplicate-identifier check
unicidad(df, column, nombre) ==
    LET dup == duplicated_sum(df, column)
    IN [passed |-> dup = 0,
        duplicates |-> dup,
        message |-> IF dup > 0
                    THEN ToString(dup) \o " IDs de " \o nombre \o " duplicados"
                    ELSE "IDs únicos"]

\* validate_all_integrity(pacientes_df, citas_df), run on the day `now`
validate_all_integrity(pacientes_df, citas_df, now) ==
    LET ref_result == validate_foreign_keys(citas_df, "id_paciente", pacientes_df, "id_paciente")
        fecha_result == validate_date_coherence(citas_df, "fecha_cita", MaxFutureDays, now)
        estado_result == validate_column_values(citas_df, "estado_cita", estados_validos)
        especialidad_result ==
            validate_column_values(citas_df, "especialidad", especialidades_validas)
        edad_result == validate_numeric_range(pacientes_df, "edad", <<EdadMin>>, <<EdadMax>>)
        unicidad_ids ==
            [k \in {n \in {"pacientes", "citas"} :
                       \/ n = "pacientes" /\ "id_paciente" \in pacientes_df.columns
                       \/ n = "citas" /\ "id_cita" \in citas_df.columns} |->
                IF k = "pacientes" THEN unicidad(pacientes_df, "id_paciente", "pacientes")
                ELSE unicidad(citas_df, "id_cita", "citas")]
        r0 == [overall_passed |-> TRUE,
               summary |-> [total_tests |-> 0, passed_tests |-> 0, failed_tests |-> 0]]
        r1 == Registrar(r0, "referencial_pacientes", ref_result.passed)
        r2 == Registrar(r1, "coherencia_fechas", fecha_result.passed)
        r3 == Registrar(r2, "estados_cita", estado_result.passed)
        r4 == Registrar(r3, "especialidades", especialidad_result.passed)
        r5 == IF "edad" \in pacientes_df.columns
              THEN Registrar(r4, "rango_edad", edad_result.passed)
              ELSE r4
        r6 == IF "pacientes" \in DOMAIN unicidad_ids
              THEN Registrar(r5, "unicidad_ids.pacientes", unicidad_ids["pacientes"].passed)
              ELSE r5
        r7 == IF "citas" \in DOMAIN unicidad_ids
              THEN Registrar(r6, "unicidad_ids.citas", unicidad_ids["citas"].passed)
              ELSE r6
    IN [overall_passed |-> r7.overall_passed,
        tests |-> [referencial_pacientes |-> ref_result,
                   coherencia_fechas |-> fecha_result,
                   estados_cita |-> estado_result,
                   especialidades |-> especialidad_result,
                   rango_edad |-> IF "edad" \in pacientes_df.columns
                                  THEN <<edad_result>> ELSE <<>>,
                   unicidad_ids |-> unicidad_ids],
        summary |-> r7.summary]

\* ------------------------------------------------------------- DataCleaner
\* the Python str of a sequence of characters, for messages
RECURSIVE StrOf(_)
StrOf(chars) == IF chars = <<>> THEN "" ELSE chars[1] \o StrOf(Tail(chars))

\* str(x) of a non-null cell: the string itself, or a Timestamp printed
\* as 'YYYY-MM-DD 00:00:00'
str(cell) ==
    IF cell[1].kind = "str" THEN cell[1].chars
    ELSE FmtFecha(cell[1].ts.year, "-", cell[1].ts.month, cell[1].ts.day)
         \o <<" ", "0", "0", ":", "0", "0", ":", "0", "0">>

\* s.strip()
RECURSIVE strip(_)
strip(s) ==
    IF s = <<>> THEN s
    ELSE IF s[1] = " " THEN strip(Tail(s))
    ELSE IF s[Len(s)] = " " THEN strip(SubSeq(s, 1, Len(s) - 1))
    ELSE s

Resultado(fecha, es_ambigua, motivo) ==
    [fecha |-> fecha, es_ambigua |-> es_ambigua, motivo |-> motivo]

\* pd.Timestamp(f"{año}-{mes:02d}-{dia:02d}"): <<Timestamp>>, or <<>> when it raises
TimestampDe(y, mes, dia) == strptime_Ymd(FmtFecha(y, "-", mes, dia))

\* the ValueError text of int(part)
IntError(part) == "invalid literal for int() with base 10: '" \o StrOf(part) \o "'"

SepsFecha == {"-", "/", "."}

\* mutant: the swap rule keeps the components in place (month = comp1)
ReglaDDMM_sinIntercambio(anio, comp1, comp2) ==
    LET fecha == TimestampDe(anio, Min(comp1, 12), comp2)
    IN IF notna(fecha)
       THEN Resultado(fecha, FALSE,
                      "CORREGIDO_DDMM(" \o ToString(comp1) \o "→" \o ToString(comp2) \o ")")
       ELSE Resultado(NaN, FALSE, "ERROR_CORRECCION")

\* REGLA 1, comp1 > 12 and comp2 <= 12: the string was YYYY-DD-MM
ReglaDDMM(anio, comp1, comp2) ==
    LET mes == comp2
        dia == Min(comp1, 31)
        fecha == TimestampDe(anio, mes, dia)
    IN IF notna(fecha)
       THEN Resultado(fecha, FALSE,
                      "CORREGIDO_DDMM(" \o ToString(comp1) \o "→" \o ToString(dia) \o ")")
       ELSE Resultado(NaN, FALSE, "ERROR_CORRECCION")

\* REGLA 2, comp1 <= 12 and comp2 > 12: the string was YYYY-MM-DD
ReglaMMDD(anio, comp1, comp2) ==
    LET mes == comp1
        dia == Min(comp2, 31)
        fecha == TimestampDe(anio, mes, dia)
    IN IF notna(fecha)
       THEN Resultado(fecha, FALSE, "VÁLIDA_MMDD")
       ELSE Resultado(NaN, FALSE, "ERROR_VALIDACION")

\* mutant: a failed ambiguous date keeps the flag of its rule and an ERROR tag
ReglaAmbigua_error(anio, comp1, comp2) ==
    LET fecha == TimestampDe(anio, comp1, Min(comp2, 31))
    IN IF notna(fecha)
       THEN Resultado(fecha, TRUE,
                      "AMBIGUA_ASUMIDO_MMDD(" \o ToString(comp1) \o "-" \o ToString(comp2) \o ")")
       ELSE Resultado(NaN, TRUE, "ERROR_AMBIGUA")

\* REGLA 3, both <= 12: ambiguous, assumed YYYY-MM-DD
ReglaAmbigua(anio, comp1, comp2) ==
    LET mes == comp1
        dia == Min(comp2, 31)
        fecha == TimestampDe(anio, mes, dia)
    IN IF notna(fecha)
       THEN Resultado(fecha, TRUE,
                      "AMBIGUA_ASUMIDO_MMDD(" \o ToString(comp1) \o "-" \o ToString(comp2) \o ")")
       ELSE Resultado(NaN, FALSE, "AMBIGUA_NO_VALIDA")

\* mutant: three parts that are not all integers are reported as a bad format
ErrorDeComponentes_formato(partes) == Resultado(NaN, FALSE, "FORMATO_INVALIDO")

\* int() raised on one of the three parts: the outer except of the function
ErrorDeComponentes(partes) ==
    LET k == CHOOSE i \in 1..3 :
                 isna(int(partes[i])) /\ \A j \in 1..(i - 1) : notna(int(partes[j]))
    IN Resultado(NaN, FALSE, "ERROR: " \o IntError(partes[k]))

\* corregir_fecha_inteligente(fecha_str) -> (fecha, es_ambigua, motivo)
corregir_fecha_inteligente(cell) ==
    IF isna(cell) \/ strip(str(cell)) = <<>> THEN Resultado(NaN, FALSE, "NULO")
    ELSE
    LET s == strip(str(cell))
        directo == strptime_Ymd(s)
        partes == re_split(s, SepsFecha)
    IN  IF notna(directo) THEN Resultado(directo, FALSE, "VÁLIDA")
        ELSE IF Len(partes) # 3 THEN Resultado(NaN, FALSE, "FORMATO_INVALIDO")
        ELSE IF \E k \in 1..3 : isna(int(partes[k])) THEN ErrorDeComponentes(partes)
        ELSE
        LET anio == int(partes[1])[1]
            comp1 == int(partes[2])[1]
            comp2 == int(partes[3])[1]
        IN  IF comp1 > 12 /\ comp2 <= 12 THEN ReglaDDMM(anio, comp1, comp2)
            ELSE IF comp1 <= 12 /\ comp2 > 12 THEN ReglaMMDD(anio, comp1, comp2)
            ELSE IF comp1 <= 12 /\ comp2 <= 12 THEN ReglaAmbigua(anio, comp1, comp2)
            ELSE Resultado(NaN, FALSE, "COMPONENTES_INVALIDOS")

\* hoy + pd.DateOffset(years=2): same month and day, the day clipped to the month
MasAnios(ts, n) ==
    Timestamp(ts.year + n, ts.month, Min(ts.day, DaysInMonth(ts.year + n, ts.month)))

AniosFuturo == 2

\* mutant: the limit counted as 730 days instead of two calendar years
RechazarFutura_730dias(fecha, now) ==
    IF isna(fecha) \/ ToOrdinal(fecha[1]) <= ToOrdinal(now) + 730
    THEN fecha
    ELSE NaN

\* step 2 of limpiar_citas: a date later than max_futuro becomes null
RechazarFutura(fecha, now) ==
    IF isna(fecha) \/ ToOrdinal(fecha[1]) <= ToOrdinal(MasAnios(now, AniosFuturo))
    THEN fecha
    ELSE NaN

\* rows of one specialty with an observed cost
Observados(df, especialidad) ==
    {i \in 1..Len(df.rows) :
        df.rows[i].especialidad = especialidad /\ notna(df.rows[i].costo)}

\* the k-th smallest cost among the rows I
Kesimo(df, I, k) ==
    LET v == CHOOSE c \in {df.rows[i].costo[1] : i \in I} :
                 /\ Cardinality({i \in I : df.rows[i].costo[1] < c}) < k
                 /\ Cardinality({i \in I : df.rows[i].costo[1] <= c}) >= k
    IN v

\* mutant: the upper middle value instead of the mean of the two middle values
mediana_alta(df, I) ==
    IF I = {} THEN NaN ELSE <<Kesimo(df, I, (Cardinality(I) \div 2) + 1)>>

\* mutant: the lower middle value instead of the mean of the two middle values
mediana_baja(df, I) ==
    IF I = {} THEN NaN ELSE <<Kesimo(df, I, (Cardinality(I) + 1) \div 2)>>

\* Series.median() over the rows I: NaN when there is none
mediana(df, I) ==
    LET n == Cardinality(I)
    IN IF n = 0 THEN NaN
       ELSE IF n % 2 = 1 THEN <<Kesimo(df, I, (n + 1) \div 2)>>
       ELSE <<(Kesimo(df, I, n \div 2) + Kesimo(df, I, (n \div 2) + 1)) \div 2>>

\* costo_promedio = df.groupby('especialidad')['costo'].median(), indexed by
\* the non-null specialties of the table
costo_promedio(df) ==
    [e \in {df.rows[i].especialidad[1] :
               i \in {j \in 1..Len(df.rows) : notna(df.rows[j].especialidad)}} |->
        mediana(df, Observados(df, <<e>>))]

\* completar_costo(row)
completar_costo(row, promedios) ==
    IF isna(row.costo) /\ notna(row.especialidad) /\ row.especialidad[1] \in DOMAIN promedios
    THEN promedios[row.especialidad[1]]
    ELSE row.costo

\* mutant: the date compared with today's date, not with the time of the run
determinar_estado_porDia(row, fecha, now) ==
    IF isna(row.estado_cita)
    THEN IF isna(fecha) THEN <<"No Programada">>
         ELSE IF ToOrdinal(fecha[1]) < ToOrdinal(now)
              THEN <<"Completada">>
              ELSE <<"Programada">>
    ELSE row.estado_cita

\* determinar_estado(row); fecha is at midnight, now carries the time of day
\* (tod = 0: exactly midnight)
determinar_estado(row, fecha, now) ==
    IF isna(row.estado_cita)
    THEN IF isna(fecha) THEN <<"No Programada">>
         ELSE IF \/ ToOrdinal(fecha[1]) < ToOrdinal(now)
                 \/ ToOrdinal(fecha[1]) = ToOrdinal(now) /\ now.tod > 0
              THEN <<"Completada">>
              ELSE <<"Programada">>
    ELSE row.estado_cita

\* a fecha_cita cell of the cleaned table
CeldaFecha(fecha) == IF isna(fecha) THEN NaN ELSE TsCell(fecha[1])

\* Series.dt.to_period('M')
to_period_M(fecha) == IF isna(fecha) THEN NaN ELSE <<[year |-> fecha[1].year, month |-> fecha[1].month]>>

ColumnasNuevas ==
    {"fecha_cita_original", "fecha_ambigua", "motivo_correccion", "paciente_valido", "anio_mes"}

\* limpiar_citas(): the appointment table after the six steps
\* mutant: a paciente_valido flag already in the table is kept
limpiar_citas_conservaBandera(df, df_pac, now) ==
    LET promedios == costo_promedio(df)
        pacientes_validos == {df_pac.rows[j].id_paciente : j \in 1..Len(df_pac.rows)}
        limpia(row) ==
            LET r == corregir_fecha_inteligente(row.fecha_cita)
                fecha == RechazarFutura(r.fecha, now)
            IN [fecha_cita_original |-> row.fecha_cita,
                fecha_cita |-> CeldaFecha(fecha),
                fecha_ambigua |-> r.es_ambigua,
                motivo_correccion |-> r.motivo,
                costo |-> completar_costo(row, promedios),
                estado_cita |-> determinar_estado(row, fecha, now),
                paciente_valido |-> IF "paciente_valido" \in DOMAIN row
                                    THEN row.paciente_valido
                                    ELSE row.id_paciente \in pacientes_validos,
                anio_mes |-> to_period_M(fecha)] @@ row
    IN DataFrame(df.columns \cup ColumnasNuevas,
                 [i \in 1..Len(df.rows) |-> limpia(df.rows[i])])

limpiar_citas(df, df_pac, now) ==
    LET promedios == costo_promedio(df)
        pacientes_validos == {df_pac.rows[j].id_paciente : j \in 1..Len(df_pac.rows)}
        limpia(row) ==
            LET r == corregir_fecha_inteligente(row.fecha_cita)
                fecha == RechazarFutura(r.fecha, now)
            IN [fecha_cita_original |-> row.fecha_cita,
                fecha_cita |-> CeldaFecha(fecha),
                fecha_ambigua |-> r.es_ambigua,
                motivo_correccion |-> r.motivo,
                costo |-> completar_costo(row, promedios),
                estado_cita |-> determinar_estado(row, fecha, now),
                paciente_valido |-> row.id_paciente \in pacientes_validos,
                anio_mes |-> to_period_M(fecha)] @@ row
    IN DataFrame(df.columns \cup ColumnasNuevas,
                 [i \in 1..Len(df.rows) |-> limpia(df.rows[i])])

\* ------------------------------------------------ DataCleaner: patient pass
Minusculas ==
    <<"a", "b", "c", "d", "e", "f", "g", "h", "i", "j", "k", "l", "m",
      "n", "o", "p", "q", "r", "s", "t", "u", "v", "w", "x", "y", "z">>

Mayusculas ==
    <<"A", "B", "C", "D", "E", "F", "G", "H", "I", "J", "K", "L", "M",
      "N", "O", "P", "Q", "R", "S", "T", "U", "V", "W", "X", "Y", "Z">>

IsLetter(c) == \E i \in 1..26 : c = Minusculas[i] \/ c = Mayusculas[i]

upper_char(c) ==
    IF \E i \in 1..26 : c = Minusculas[i]
    THEN Mayusculas[CHOOSE i \in 1..26 : c = Minusculas[i]]
    ELSE c

lower_char(c) ==
    IF \E i \in 1..26 : c = Mayusculas[i]
    THEN Minusculas[CHOOSE i \in 1..26 : c = Mayusculas[i]]
    ELSE c

\* s.upper(), s.lower()
upper(s) == [i \in 1..Len(s) |-> upper_char(s[i])]
lower(s) == [i \in 1..Len(s) |-> lower_char(s[i])]

\* str(x) of any cell: 'nan' for a null
str_o_nan(cell) == IF isna(cell) THEN <<"n", "a", "n">> ELSE str(cell)

\* step 1: the lambda that normalises sexo
normalizar_sexo(cell) ==
    LET s == upper(strip(str_o_nan(cell)))
    IN IF s \in {<<"F">>, <<"F", "E", "M", "A", "L", "E">>} THEN StrCell(<<"F">>)
       ELSE IF s \in {<<"M">>, <<"M", "A", "L", "E">>} THEN StrCell(<<"M">>)
       ELSE NaN

\* mutant: the age always taken from the birth date's year, birthday ignored
calcular_edad_desde_fecha_sinAjuste(fecha_str_, edad_actual, today) ==
    LET fecha_nac == to_datetime(fecha_str_)
    IN IF isna(fecha_nac) THEN edad_actual ELSE <<today.year - fecha_nac[1].year>>

\* step 2: calcular_edad_desde_fecha(fecha_str, edad_actual)
calcular_edad_desde_fecha(fecha_str_, edad_actual, today) ==
    IF isna(fecha_str_) THEN edad_actual
    ELSE LET fecha_nac == to_datetime(fecha_str_)
         IN IF isna(fecha_nac) THEN edad_actual
            ELSE IF \/ today.month < fecha_nac[1].month
                    \/ today.month = fecha_nac[1].month /\ today.day < fecha_nac[1].day
                 THEN <<today.year - fecha_nac[1].year - 1>>
                 ELSE <<today.year - fecha_nac[1].year>>

TelefonoMin == 7
TelefonoMax == 15

\* mutant: the phone kept whole when its digits have a valid length
limpiar_telefono_sinFiltro(cell) ==
    IF isna(cell) THEN NaN
    ELSE IF Len(SelectSeq(str(cell), IsDigit)) \in TelefonoMin..TelefonoMax
         THEN StrCell(str(cell))
         ELSE NaN

\* step 3: limpiar_telefono(tel)
limpiar_telefono(cell) ==
    IF isna(cell) THEN NaN
    ELSE LET tel_limpio == SelectSeq(str(cell), IsDigit)
         IN IF TelefonoMin <= Len(tel_limpio) /\ Len(tel_limpio) <= TelefonoMax
            THEN StrCell(tel_limpio)
            ELSE NaN

\* re.match(r'^[a-zA-Z0-9._%+-]+@[a-zA-Z0-9.-]+\.[a-zA-Z]{2,}$', s)
EmailMatch(s) ==
    \E k \in 2..Len(s) :
        /\ s[k] = "@"
        /\ \A i \in 1..(k - 1) : IsLetter(s[i]) \/ IsDigit(s[i]) \/ s[i] \in {".", "_", "%", "+", "-"}
        /\ \E d \in (k + 2)..(Len(s) - 2) :
              /\ s[d] = "."
              /\ \A i \in (k + 1)..(d - 1) : IsLetter(s[i]) \/ IsDigit(s[i]) \/ s[i] \in {".", "-"}
              /\ \A i \in (d + 1)..Len(s) : IsLetter(s[i])

\* step 4: validar_email(email)
validar_email(cell) ==
    IF isna(cell) THEN NaN
    ELSE LET email == lower(strip(str(cell)))
         IN IF EmailMatch(email) THEN StrCell(email) ELSE NaN

\* ' '.join(word.capitalize() for word in s.split())
RECURSIVE capitalizar_palabras(_, _)
capitalizar_palabras(s, inicio) ==
    IF s = <<>> THEN <<>>
    ELSE IF s[1] = " "
         THEN LET resto == capitalizar_palabras(Tail(s), TRUE)
              IN IF inicio \/ resto = <<>> THEN resto ELSE <<" ">> \o resto
         ELSE <<IF inicio THEN upper_char(s[1]) ELSE lower_char(s[1])>>
              \o capitalizar_palabras(Tail(s), FALSE)

\* step 5: normalizar_nombre(nombre)
normalizar_nombre(cell) ==
    IF isna(cell) THEN NaN ELSE StrCell(capitalizar_palabras(str(cell), TRUE))

CamposCalidad == <<"nombre", "edad", "sexo", "telefono", "email">>

PuntosPorCampo == 20

\* mutant: the score of the input kept when there is one
calcular_score_calidad_heredado(row) ==
    IF "score_calidad" \in DOMAIN row /\ notna(row.score_calidad)
    THEN row.score_calidad
    ELSE <<PuntosPorCampo * Cardinality({k \in 1..Len(CamposCalidad) : notna(row[CamposCalidad[k]])})>>

\* step 6: calcular_score_calidad(row)
calcular_score_calidad(row) ==
    <<PuntosPorCampo * Cardinality({k \in 1..Len(CamposCalidad) : notna(row[CamposCalidad[k]])})>>

\* limpiar_pacientes(): the patient table after the six steps
limpiar_pacientes(df, today) ==
    LET limpia(row) ==
            LET normal == [sexo |-> normalizar_sexo(row.sexo),
                           edad |-> calcular_edad_desde_fecha(row.fecha_nacimiento, row.edad, today),
                           telefono |-> limpiar_telefono(row.telefono),
                           email |-> validar_email(row.email),
                           nombre |-> normalizar_nombre(row.nombre)] @@ row
            IN [score_calidad |-> calcular_score_calidad(normal)] @@ normal
    IN DataFrame(df.columns \cup {"score_calidad"},
                 [i \in 1..Len(df.rows) |-> limpia(df.rows[i])])

\* ----------------------------------------------------------- DataValidator
\* DataValidator(df)
DataValidator(df) ==
    [df |-> df, validation_results |-> <<>>, errors |-> <<>>, ultimo |-> NaN]

\* dict[key] = result
Guardar(results, key, result) ==
    [k \in DOMAIN results \cup {key} |-> IF k = key THEN result ELSE results[k]]

\* self.df[column] on a column the table lacks
KeyError(v, column) == [v EXCEPT !.ultimo = <<[excepcion |-> "KeyError", column |-> column]>>]

\* the method returns result, having stored it under key and appended errs
Retorna(v, key, result, errs) ==
    [v EXCEPT !.validation_results = Guardar(v.validation_results, key, result),
              !.errors = v.errors \o errs,
              !.ultimo = <<result>>]

\* the method returns result and stores nothing
RetornaSinGuardar(v, result) == [v EXCEPT !.ultimo = <<result>>]

\* round(n / total, 4), in ten-thousandths
Redondeo4(n, total) == (2 * 10000 * n + total) \div (2 * total)

\* f"{x:.2%}" of x = n / total
FmtPorcentaje(n, total) ==
    LET p == IF total > 0 THEN Redondeo4(n, total) ELSE 0
    IN ToString(p \div 100) \o "." \o StrOf(Fmt02d(p % 100)) \o "%"

\* validate_not_null(column, threshold); threshold in hundredths
validate_not_null(v, column, threshold) ==
    IF column \notin v.df.columns THEN KeyError(v, column)
    ELSE LET total == Len(v.df.rows)
             null_count == Sum([i \in 1..total |-> isna(v.df.rows[i][column])])
             passed == null_count * 100 <= (100 - threshold) * total
             result == [column |-> column, rule |-> "not_null", threshold |-> threshold,
                        null_count |-> null_count,
                        null_percentage |-> IF total > 0 THEN Redondeo4(null_count, total) ELSE 0,
                        total_rows |-> total,
                        passed |-> passed,
                        message |-> ToString(null_count) \o "/" \o ToString(total)
                                    \o " valores nulos (" \o FmtPorcentaje(null_count, total) \o ")"]
         IN Retorna(v, column \o "_not_null", result,
                    IF passed THEN <<>>
                    ELSE <<"Columna '" \o column \o "' tiene demasiados nulos: "
                           \o FmtPorcentaje(null_count, total)>>)

\* validate_unique(column)
validate_unique(v, column) ==
    IF column \notin v.df.columns THEN KeyError(v, column)
    ELSE LET total == Len(v.df.rows)
             unique_count == Cardinality(dropna_unique(Columna(v.df, column)))
             duplicate_count == total - unique_count
             result == [column |-> column, rule |-> "unique", total_rows |-> total,
                        unique_count |-> unique_count, duplicate_count |-> duplicate_count,
                        passed |-> duplicate_count = 0,
                        message |-> ToString(duplicate_count) \o " duplicados encontrados"]
         IN Retorna(v, column \o "_unique", result,
                    IF duplicate_count = 0 THEN <<>>
                    ELSE <<"Columna '" \o column \o "' tiene " \o ToString(duplicate_count)
                           \o " valores duplicados">>)

\* the result of a check on a column the table lacks
NoExiste(column, rule) ==
    [column |-> column, rule |-> rule, passed |-> FALSE,
     message |-> "Columna '" \o column \o "' no existe"]

\* the result of a check that found no non-null value
SinValores(column, rule, cuenta, extra) ==
    (cuenta :> 0) @@ extra @@
    [column |-> column, rule |-> rule, total_checked |-> 0,
     passed |-> TRUE, message |-> "Sin valores para validar"]

\* the non-null rows of a column
NoNulas(df, column) == {i \in 1..Len(df.rows) : notna(df.rows[i][column])}

phone_pattern == "^\\d{7,15}$"

\* Series.astype(str).str.match(pattern) on one cell, for the patterns in use
str_match(cell, pattern) ==
    /\ pattern = phone_pattern
    /\ cell[1].kind = "str"
    /\ Len(cell[1].chars) \in 7..15
    /\ \A k \in 1..Len(cell[1].chars) : IsDigit(cell[1].chars[k])

\* mutant: every offending row is listed
head_todas(filas, n) ==
    [k \in 1..Cardinality(filas) |->
        CHOOSE i \in filas : Cardinality({j \in filas : j < i}) = k - 1]

\* Series.head(n) of the rows selected: the first n of them in index order
head(filas, n) ==
    [k \in 1..(IF Cardinality(filas) < n THEN Cardinality(filas) ELSE n) |->
        CHOOSE i \in filas : Cardinality({j \in filas : j < i}) = k - 1]

\* the tail shared by the checks that count offending non-null values; campos
\* names the fields of the count, the percentage and the examples, extra holds
\* the arguments echoed in every result, detalle those echoed after a count
Conteo(v, column, rule, sufijo, malos, mensaje, errs, campos, extra, detalle) ==
    LET total_non_null == Cardinality(NoNulas(v.df, column))
        invalid_count == Cardinality(malos)
        primeras == head(malos, 5)
    IN IF total_non_null = 0
       THEN Retorna(v, column \o sufijo, SinValores(column, rule, campos.cuenta, extra), <<>>)
       ELSE Retorna(v, column \o sufijo,
                    (IF invalid_count > 0
                     THEN campos.ejemplos :>
                              [k \in DOMAIN primeras |-> v.df.rows[primeras[k]][column][1]]
                     ELSE <<>>)
                    @@ (campos.cuenta :> invalid_count)
                    @@ (campos.porcentaje :> Redondeo4(invalid_count, total_non_null))
                    @@ extra @@ detalle @@
                    [column |-> column, rule |-> rule, total_checked |-> total_non_null,
                     passed |-> invalid_count = 0,
                     message |-> ToString(invalid_count) \o "/" \o ToString(total_non_null)
                                 \o mensaje],
                    IF invalid_count > 0 THEN errs ELSE <<>>)

CamposInvalid ==
    [cuenta |-> "invalid_count", porcentaje |-> "invalid_percentage",
     ejemplos |-> "invalid_examples"]

CamposRango ==
    [cuenta |-> "out_of_range_count", porcentaje |-> "out_of_range_percentage",
     ejemplos |-> "out_of_range_examples"]

\* validate_format(column, pattern, description)
validate_format(v, column, pattern, description) ==
    IF column \notin v.df.columns THEN RetornaSinGuardar(v, NoExiste(column, "format"))
    ELSE LET invalid == {i \in NoNulas(v.df, column) : ~str_match(v.df.rows[i][column], pattern)}
         IN Conteo(v, column, "format", "_format", invalid, " valores con formato incorrecto",
                   <<"Columna '" \o column \o "': " \o ToString(Cardinality(invalid))
                     \o " valores no cumplen formato '" \o description \o "'">>,
                   CamposInvalid, [pattern |-> pattern], [description |-> description])

\* validate_range(column, min_val, max_val); a bound of None is a null cell
validate_range(v, column, min_val, max_val) ==
    IF column \notin v.df.columns THEN RetornaSinGuardar(v, NoExiste(column, "range"))
    ELSE LET out_of_range == {i \in NoNulas(v.df, column) :
                                 \/ notna(min_val) /\ ~(v.df.rows[i][column][1] >= min_val[1])
                                 \/ notna(max_val) /\ ~(v.df.rows[i][column][1] <= max_val[1])}
         IN Conteo(v, column, "range", "_range", out_of_range, " valores fuera de rango",
                   <<"Columna '" \o column \o "': " \o ToString(Cardinality(out_of_range))
                     \o " valores fuera de rango">>,
                   CamposRango, [min |-> min_val, max |-> max_val], <<>>)

\* validate_value_set(column, allowed_values)
validate_value_set(v, column, allowed_values) ==
    IF column \notin v.df.columns THEN RetornaSinGuardar(v, NoExiste(column, "value_set"))
    ELSE LET invalid == {i \in NoNulas(v.df, column) : ~isin(v.df.rows[i][column], allowed_values)}
         IN Conteo(v, column, "value_set", "_value_set", invalid, " valores no permitidos",
                   <<"Columna '" \o column \o "': " \o ToString(Cardinality(invalid))
                     \o " valores no permitidos">>,
                   CamposInvalid, [allowed_values |-> allowed_values],
                   IF invalid = {} THEN <<>>
                   ELSE [unique_invalid_values |->
                            {v.df.rows[i][column][1] : i \in invalid}])

\* the rule functions handed to validate_consistency
rule_func(nombre, a, b) ==
    IF nombre = "menor_o_igual" THEN a <= b ELSE FALSE

\* validate_consistency(column1, column2, rule_func, description)
validate_consistency(v, column1, column2, regla) ==
    IF column1 \notin v.df.columns \/ column2 \notin v.df.columns
    THEN RetornaSinGuardar(v, [rule |-> "consistency", columns |-> <<column1, column2>>,
                               passed |-> FALSE,
                               message |-> "Columnas no existen: " \o column1 \o ", " \o column2])
    ELSE LET rows_to_check == NoNulas(v.df, column1) \cap NoNulas(v.df, column2)
             total_to_check == Cardinality(rows_to_check)
             inconsistent == {i \in rows_to_check :
                                 ~rule_func(regla, v.df.rows[i][column1][1], v.df.rows[i][column2][1])}
             inconsistent_count == Cardinality(inconsistent)
             key == "consistency_" \o column1 \o "_" \o column2
         IN IF total_to_check = 0
            THEN Retorna(v, key,
                         [rule |-> "consistency", columns |-> <<column1, column2>>,
                          total_checked |-> 0, inconsistent_count |-> 0, passed |-> TRUE,
                          message |-> "Sin filas para validar consistencia"],
                         <<>>)
            ELSE Retorna(v, key,
                         [rule |-> "consistency", columns |-> <<column1, column2>>,
                          total_checked |-> total_to_check,
                          inconsistent_count |-> inconsistent_count,
                          inconsistent_percentage |-> Redondeo4(inconsistent_count, total_to_check),
                          passed |-> inconsistent_count = 0,
                          message |-> ToString(inconsistent_count) \o "/" \o ToString(total_to_check)
                                      \o " filas inconsistentes"],
                         IF inconsistent_count > 0
                         THEN <<"Consistencia " \o column1 \o "-" \o column2 \o ": "
                                \o ToString(inconsistent_count) \o " inconsistencias">>
                         ELSE <<>>)

\* get_summary(); success_rate in hundredths of a percent
get_summary(v) ==
    LET total_tests == Cardinality(DOMAIN v.validation_results)
        passed_tests == Cardinality({k \in DOMAIN v.validation_results : v.validation_results[k].passed})
    IN [total_tests |-> total_tests,
        passed_tests |-> passed_tests,
        failed_tests |-> total_tests - passed_tests,
        success_rate |-> IF total_tests > 0 THEN Redondeo4(passed_tests, total_tests) ELSE 0,
        errors |-> v.errors,
        details |-> v.validation_results]

\* ------------------------------------------------- HospitalSchemaValidator
PACIENTES_SCHEMA ==
    [id_paciente |-> [type |-> "int64", nullable |-> FALSE, unique |-> TRUE],
     nombre |-> [type |-> "object", nullable |-> FALSE],
     fecha_nacimiento |-> [type |-> "object", nullable |-> FALSE],
     edad |-> [type |-> "float64", nullable |-> TRUE, min |-> 0, max |-> 120],
     sexo |-> [type |-> "object", nullable |-> TRUE, allowed_values |-> {"M", "F"}],
     email |-> [type |-> "object", nullable |-> TRUE],
     telefono |-> [type |-> "object", nullable |-> TRUE],
     ciudad |-> [type |-> "object", nullable |-> TRUE]]

CITAS_SCHEMA ==
    [id_cita |-> [type |-> "object", nullable |-> FALSE, unique |-> TRUE],
     id_paciente |-> [type |-> "int64", nullable |-> FALSE],
     fecha_cita |-> [type |-> "object", nullable |-> TRUE],
     especialidad |-> [type |-> "object", nullable |-> TRUE,
                       allowed_values |-> especialidades_validas],
     medico |-> [type |-> "object", nullable |-> TRUE],
     costo |-> [type |-> "float64", nullable |-> TRUE, min |-> 0, max |-> 1000],
     estado_cita |-> [type |-> "object", nullable |-> TRUE, allowed_values |-> estados_validos]]

\* HospitalSchemaValidator()
HospitalSchemaValidator == [errors |-> <<>>, warnings |-> <<>>]

type_map ==
    [int64 |-> {"int64", "int32", "float64", "float32"},
     float64 |-> {"float64", "float32", "int64", "int32"},
     object |-> {"object"}]

\* mutant: only the declared type itself is accepted
check_type_compatibility_exacto(actual, expected) == actual = expected

\* _check_type_compatibility(actual, expected)
check_type_compatibility(actual, expected) ==
    expected \in DOMAIN type_map /\ actual \in type_map[expected]

\* _validate_schema(df, schema, table_name): the validator after the call
\* and the results it returns; df.dtypes gives each column's dtype
validate_schema(sv, df, schema, table_name) ==
    LET expected_columns == DOMAIN schema
        actual_columns == df.columns
        missing_columns == expected_columns \ actual_columns
        extra_columns == actual_columns \ expected_columns
        type_mismatches ==
            {[column |-> column, expected |-> schema[column].type, actual |-> df.dtypes[column]] :
                column \in {c \in expected_columns \cap actual_columns :
                               ~check_type_compatibility(df.dtypes[c], schema[c].type)}}
        errores_faltantes ==
            IF missing_columns # {} THEN <<[tabla |-> table_name, faltantes |-> missing_columns]>>
            ELSE <<>>
        errores_tipo ==
            IF type_mismatches # {} THEN <<[tabla |-> table_name, tipos |-> type_mismatches]>>
            ELSE <<>>
    IN [sv |-> [errors |-> sv.errors \o errores_faltantes \o errores_tipo,
                warnings |-> sv.warnings \o
                    (IF extra_columns # {}
                     THEN <<[tabla |-> table_name, extras |-> extra_columns]>> ELSE <<>>)],
        results |-> [table |-> table_name,
                     total_columns_expected |-> Cardinality(expected_columns),
                     total_columns_found |-> Cardinality(actual_columns),
                     missing_columns |-> missing_columns,
                     extra_columns |-> extra_columns,
                     type_mismatches |-> type_mismatches,
                     constraint_violations |-> {},
                     passed |-> missing_columns = {} /\ type_mismatches = {}]]

\* df[column] = values: the column added, or replaced, row by row
AsignarColumna(df, column, values) ==
    [df EXCEPT !.columns = @ \cup {column},
               !.rows = [i \in 1..Len(df.rows) |-> (column :> values[i]) @@ df.rows[i]]]

\* mutant: the parsed dates kept in local copies of the tables
validate_data_integrity_sinEscribir(sv, pacientes_df, citas_df) ==
    LET invalid_references ==
            {c \in {citas_df.rows[i].id_paciente : i \in 1..Len(citas_df.rows)} :
                isna(c) \/ c \notin {pacientes_df.rows[j].id_paciente : j \in 1..Len(pacientes_df.rows)}}
    IN [sv |-> sv,
        results |-> [foreign_key_violations |-> Cardinality(invalid_references),
                     date_consistency_issues |-> 0,
                     passed |-> invalid_references = {}],
        pacientes_df |-> pacientes_df,
        citas_df |-> citas_df]

\* validate_data_integrity(pacientes_df, citas_df): the validator and the two
\* tables after the call, and the results it returns. A null identifier of
\* citas equals no element of set(pacientes_df['id_paciente'].unique()).
validate_data_integrity(sv, pacientes_df, citas_df) ==
    LET pacientes_ids == {pacientes_df.rows[j].id_paciente : j \in 1..Len(pacientes_df.rows)}
        citas_pacientes == {citas_df.rows[i].id_paciente : i \in 1..Len(citas_df.rows)}
        invalid_references == {c \in citas_pacientes : isna(c) \/ c \notin pacientes_ids}
        errores ==
            IF invalid_references # {}
            THEN <<"Integridad referencial: " \o ToString(Cardinality(invalid_references))
                   \o " citas referencian pacientes no existentes">>
            ELSE <<>>
        results ==
            IF invalid_references # {}
            THEN [foreign_key_violations |-> Cardinality(invalid_references),
                  date_consistency_issues |-> 0,
                  passed |-> FALSE,
                  invalid_patient_ids |-> invalid_references]
            ELSE [foreign_key_violations |-> 0, date_consistency_issues |-> 0, passed |-> TRUE]
        con_fecha_cita == "fecha_cita" \in citas_df.columns
        con_nacimiento == "fecha_nacimiento" \in pacientes_df.columns
    IN [sv |-> [sv EXCEPT !.errors = @ \o errores,
                          !.warnings = @ \o (IF con_fecha_cita /\ con_nacimiento THEN <<>>
                                             ELSE <<"No se pudo validar consistencia de fechas">>)],
        results |-> results,
        citas_df |-> IF con_fecha_cita
                     THEN AsignarColumna(citas_df, "fecha_cita_dt",
                              [i \in 1..Len(citas_df.rows) |->
                                  CeldaFecha(to_datetime(citas_df.rows[i].fecha_cita))])
                     ELSE citas_df,
        pacientes_df |-> IF con_fecha_cita /\ con_nacimiento
                         THEN AsignarColumna(pacientes_df, "fecha_nacimiento_dt",
                                  [i \in 1..Len(pacientes_df.rows) |->
                                      CeldaFecha(to_datetime(pacientes_df.rows[i].fecha_nacimiento))])
                         ELSE pacientes_df]

\* ------------------------------------------------------------ input frames
\* all sequences over S of length at most n
SeqsUpTo(S, n) == UNION {[1..k -> S] : k \in 0..n}

\* df.drop(columns=[column])
DropColumn(df, column) ==
    DataFrame(df.columns \ {column},
              [i \in 1..Len(df.rows) |->
                  [c \in df.columns \ {column} |-> df.rows[i][c]]])

\* df[[column]]
OnlyColumn(df, column) ==
    DataFrame({column}, [i \in 1..Len(df.rows) |-> [c \in {column} |-> df.rows[i][c]]])

Hoys == {Timestamp(2025, 3, 1), Timestamp(2026, 11, 2)}

PacienteRow(id, edad) == [id_paciente |-> id, edad |-> edad]

PacienteRows == {PacienteRow(<<1>>, <<30>>), PacienteRow(<<2>>, <<150>>)}

\* patient tables, with and without the edad column
PacientesFrames ==
    LET full == {DataFrame({"id_paciente", "edad"}, rows) :
                    rows \in SeqsUpTo(PacienteRows, MaxPacientes)}
    IN full \cup {DropColumn(df, "edad") : df \in full}

CitaBase(id) ==
    [id_cita |-> <<id>>,
     id_paciente |-> <<1>>,
     fecha_cita |-> StrCell(FmtFecha(2024, "-", 5, 13)),
     estado_cita |-> <<"Completada">>,
     especialidad |-> <<"Cardiología">>]

\* appointment rows: a valid row, or a valid row with one defective field
CitaRows ==
    {CitaBase(1),
     [CitaBase(2) EXCEPT !.id_paciente = <<999>>],
     [CitaBase(3) EXCEPT !.fecha_cita = NaN],
     [CitaBase(4) EXCEPT !.fecha_cita = StrCell(FmtFecha(2028, "-", 11, 2))],
     [CitaBase(5) EXCEPT !.estado_cita = NaN],
     [CitaBase(6) EXCEPT !.especialidad = <<"Dermatología">>]}

CitasFrames ==
    {DataFrame({"id_cita", "id_paciente", "fecha_cita", "estado_cita", "especialidad"}, rows) :
        rows \in SeqsUpTo(CitaRows, MaxCitas)}

\* single-column tables, as a unit test builds them
IdCells == {NaN, <<1>>, <<2>>, <<999>>}

FechaCells ==
    {NaN,
     StrCell(<<"n", "o", "t", "-", "a", "-", "d", "a", "t", "e">>),
     StrCell(FmtFecha(2024, "-", 5, 13)),
     StrCell(FmtFecha(2027, "-", 3, 1)),
     StrCell(FmtFecha(2027, "-", 3, 2)),
     TsCell(Timestamp(2028, 11, 1)),
     TsCell(Timestamp(2028, 11, 2))}

EstadoCells == {NaN, <<"Completada">>, <<"Programada">>, <<"Finalizada">>}

ColumnFrames(column, cells) ==
    {DataFrame({column}, rows) :
        rows \in SeqsUpTo({[c \in {column} |-> v] : v \in cells}, MaxColumna)}

MaxFutureDaysArgs == {0, MaxFutureDays}

\* ------------------------------------------------------------------ actions
\* A batch is loaded once and one validator call is made on it (a test case,
\* or the validation stage): resultados.op = "none" until the call returns.
Init ==
    /\ \/ /\ pacientes \in PacientesFrames
          /\ citas \in CitasFrames
          /\ hoy = Timestamp(2026, 11, 2)
       \/ /\ pacientes \in {OnlyColumn(df, "id_paciente") : df \in PacientesFrames}
          /\ citas \in ColumnFrames("id_paciente", IdCells)
          /\ hoy = Timestamp(2026, 11, 2)
       \/ /\ pacientes = DataFrame({"id_paciente", "edad"}, <<PacienteRow(<<1>>, <<30>>)>>)
          /\ citas \in ColumnFrames("fecha_cita", FechaCells)
          /\ hoy \in Hoys
       \/ /\ pacientes = DataFrame({"id_paciente", "edad"}, <<PacienteRow(<<1>>, <<30>>)>>)
          /\ citas \in ColumnFrames("estado_cita", EstadoCells)
          /\ hoy = Timestamp(2026, 11, 2)
    /\ resultados = [op |-> "none"]
    /\ fecha_str = NaN
    /\ fecha_res = NaN
    /\ df_pacientes = pacientes
    /\ df_citas = citas
    /\ paso = Creado
    /\ validador = SinValidador
    /\ orquestador = SinOrquestador

ValidateForeignKeys ==
    /\ resultados.op = "none"
    /\ resultados' = [op |-> "validate_foreign_keys",
                      res |-> validate_foreign_keys(citas, "id_paciente",
                                                    pacientes, "id_paciente")]
    /\ UNCHANGED <<pacientes, citas, hoy, fecha_str, fecha_res, limpiador, validador, orquestador>>

ValidateDateCoherence ==
    /\ resultados.op = "none"
    /\ \E max_future_days \in MaxFutureDaysArgs :
          resultados' = [op |-> "validate_date_coherence",
                         max_future_days |-> max_future_days,
                         res |-> validate_date_coherence(citas, "fecha_cita",
                                                         max_future_days, hoy)]
    /\ UNCHANGED <<pacientes, citas, hoy, fecha_str, fecha_res, limpiador, validador, orquestador>>

ValidateColumnValues ==
    /\ resultados.op = "none"
    /\ \E arg \in {[column |-> "estado_cita", valid_values |-> estados_validos],
                   [column |-> "especialidad", valid_values |-> especialidades_validas]} :
          resultados' = [op |-> "validate_column_values",
                         column |-> arg.column,
                         valid_values |-> arg.valid_values,
                         res |-> validate_column_values(citas, arg.column, arg.valid_values)]
    /\ UNCHANGED <<pacientes, citas, hoy, fecha_str, fecha_res, limpiador, validador, orquestador>>

ValidateNumericRange ==
    /\ resultados.op = "none"
    /\ \E min_val \in {NaN, <<EdadMin>>}, max_val \in {<<EdadMax>>} :
          resultados' = [op |-> "validate_numeric_range",
                         res |-> validate_numeric_range(pacientes, "edad", min_val, max_val)]
    /\ UNCHANGED <<pacientes, citas, hoy, fecha_str, fecha_res, limpiador, validador, orquestador>>

ValidateAllIntegrity ==
    /\ resultados.op = "none"
    /\ resultados' = [op |-> "validate_all_integrity",
                      res |-> validate_all_integrity(pacientes, citas, hoy)]
    /\ UNCHANGED <<pacientes, citas, hoy, fecha_str, fecha_res, limpiador, validador, orquestador>>

Next ==
    \/ ValidateForeignKeys
    \/ ValidateDateCoherence
    \/ ValidateColumnValues
    \/ ValidateNumericRange
    \/ ValidateAllIntegrity

Spec == Init /\ [][Next]_vars

\* ------------------------------------------- the date disambiguator alone
Anios == {2024, 2025}

\* second and third components of the raw dates, written with two digits
Comps == {0, 2, 4, 5, 7, 12, 13, 31, 45}

Texto(s) == StrCell(s)

\* raw fecha_cita cells: null, blank, year-comp1-comp2 with each separator,
\* free text, and Timestamps
RawFechas ==
    {NaN, Texto(<<>>), Texto(<<" ", " ">>)}
    \cup {Texto(FmtFecha(y, sep, a, b)) : y \in Anios, sep \in SepsFecha, a \in Comps, b \in Comps}
    \cup {Texto(<<" ">> \o FmtFecha(2024, "-", 13, 5) \o <<" ">>),
          Texto(<<"n", "o", "t", "-", "a", "-", "d", "a", "t", "e">>),
          Texto(<<"n", "o", "t", "a", "d", "a", "t", "e">>),
          Texto(<<"2", "0", "2", "4", "-", "0", "5">>),
          Texto(<<"2", "0", "2", "4", "-", "0", "5", "-">>),
          Texto(<<"2", "0", "2", "4", "-", "0", "5", "-", "0", "7", "-", "0", "1">>),
          Texto(<<"2", "0", "2", "4", "/", "m", "a", "y", "/", "0", "7">>),
          Texto(<<"2", "0", "2", "4", "-", "0", "5", "/", "0", "7">>),
          TsCell(Timestamp(2024, 5, 7))}

InitFechas ==
    /\ fecha_str \in RawFechas
    /\ fecha_res = NaN
    /\ pacientes = DataFrame({}, <<>>)
    /\ citas = DataFrame({}, <<>>)
    /\ hoy = Timestamp(2026, 11, 2)
    /\ resultados = [op |-> "none"]
    /\ df_pacientes = pacientes
    /\ df_citas = citas
    /\ paso = Creado
    /\ validador = SinValidador
    /\ orquestador = SinOrquestador

CorregirFecha ==
    /\ fecha_res = NaN
    /\ fecha_res' = <<corregir_fecha_inteligente(fecha_str)>>
    /\ UNCHANGED <<pacientes, citas, hoy, resultados, fecha_str, limpiador, validador, orquestador>>

NextFechas == CorregirFecha

SpecFechas == InitFechas /\ [][NextFechas]_vars

\* ---------------------------------------------------- the appointment pass
MaxFilas == 4

Ahora == [year |-> 2026, month |-> 11, day |-> 2, tod |-> 1]

CostoCells == {NaN, <<100>>, <<200>>}

EspecialidadCells == {NaN, <<"Cardiología">>, <<"Neurología">>}

\* appointment tables that vary in specialty and cost
CitasConCosto ==
    {DataFrame({"id_cita", "id_paciente", "fecha_cita", "especialidad", "costo", "estado_cita"},
               [i \in 1..Len(filas) |->
                   [id_cita |-> <<i>>,
                    id_paciente |-> <<1>>,
                    fecha_cita |-> StrCell(FmtFecha(2024, "-", 5, 13)),
                    especialidad |-> filas[i].especialidad,
                    costo |-> filas[i].costo,
                    estado_cita |-> <<"Completada">>]]) :
        filas \in SeqsUpTo([especialidad : EspecialidadCells, costo : CostoCells], MaxFilas)}

InitCostos ==
    /\ pacientes = DataFrame({"id_paciente", "edad"}, <<PacienteRow(<<1>>, <<30>>)>>)
    /\ citas \in CitasConCosto
    /\ hoy = Ahora
    /\ resultados = [op |-> "none"]
    /\ fecha_str = NaN
    /\ fecha_res = NaN
    /\ df_pacientes = pacientes
    /\ df_citas = citas
    /\ paso = Creado
    /\ validador = SinValidador
    /\ orquestador = SinOrquestador

LimpiarCitas ==
    /\ ~paso.citas
    /\ df_citas' = limpiar_citas(df_citas, df_pacientes, hoy)
    /\ paso' = [paso EXCEPT !.citas = TRUE]
    /\ UNCHANGED <<pacientes, citas, hoy, resultados, fecha_str, fecha_res, df_pacientes, validador, orquestador>>

NextCostos == LimpiarCitas

SpecCostos == InitCostos /\ [][NextCostos]_vars

\* ------------------------------------- the appointment pass over the dates
MaxAgenda == 2

\* processing times: at midnight, later in the day, on a leap day
Ahoras ==
    {[year |-> 2026, month |-> 11, day |-> 2, tod |-> 0],
     Ahora,
     [year |-> 2028, month |-> 2, day |-> 29, tod |-> 1]}

FechasAgenda ==
    {NaN,
     StrCell(FmtFecha(2024, "-", 5, 13)),
     StrCell(FmtFecha(2026, "-", 11, 2)),
     StrCell(FmtFecha(2026, "-", 11, 3)),
     StrCell(FmtFecha(2028, "-", 11, 2)),
     StrCell(FmtFecha(2028, "-", 11, 3)),
     StrCell(FmtFecha(2030, "-", 2, 28)),
     StrCell(FmtFecha(2030, "/", 3, 1)),
     StrCell(FmtFecha(2024, "-", 13, 5)),
     StrCell(<<"n", "o", "t", "-", "a", "-", "d", "a", "t", "e">>)}

EstadosAgenda == {NaN, <<"Cancelada">>}

\* appointment tables that vary in date and status
CitasAgenda ==
    {DataFrame({"id_cita", "id_paciente", "fecha_cita", "especialidad", "costo", "estado_cita"},
               [i \in 1..Len(filas) |->
                   [id_cita |-> <<i>>,
                    id_paciente |-> <<1>>,
                    fecha_cita |-> filas[i].fecha_cita,
                    especialidad |-> <<"Cardiología">>,
                    costo |-> <<100>>,
                    estado_cita |-> filas[i].estado_cita]]) :
        filas \in SeqsUpTo([fecha_cita : FechasAgenda, estado_cita : EstadosAgenda], MaxAgenda)}

InitAgenda ==
    /\ pacientes = DataFrame({"id_paciente", "edad"}, <<PacienteRow(<<1>>, <<30>>)>>)
    /\ citas \in CitasAgenda
    /\ hoy \in Ahoras
    /\ resultados = [op |-> "none"]
    /\ fecha_str = NaN
    /\ fecha_res = NaN
    /\ df_pacientes = pacientes
    /\ df_citas = citas
    /\ paso = Creado
    /\ validador = SinValidador
    /\ orquestador = SinOrquestador

\* the validation stage's date check on the cleaned appointment table
ValidarCitasLimpias ==
    /\ paso.citas
    /\ resultados.op = "none"
    /\ resultados' = [op |-> "coherencia_fechas",
                      res |-> validate_date_coherence(df_citas, "fecha_cita", MaxFutureDays, hoy)]
    /\ UNCHANGED <<pacientes, citas, hoy, fecha_str, fecha_res, limpiador, validador, orquestador>>

NextAgenda ==
    \/ LimpiarCitas
    \/ ValidarCitasLimpias

SpecAgenda == InitAgenda /\ [][NextAgenda]_vars

\* ------------------------------------------- both passes, and their re-run
MaxFichas == 2

MaxVueltas == 2

SexoCells ==
    {NaN, StrCell(<<"F">>), StrCell(<<" ", "f", "e", "m", "a", "l", "e", " ">>), StrCell(<<"m">>), StrCell(<<"M", "a", "l", "e">>), StrCell(<<"x">>)}

TelefonoCells ==
    {NaN, StrCell(<<"5", "5", "5", "-", "1", "2", " ", "3", "4">>), StrCell(<<"1", "2", "3", "4", "5">>),
     StrCell(<<"+", "5", "7", " ", "(", "3", "0", "0", ")", " ", "1", "2", "3", "-", "4", "5", "6", "7", " ", "e", "x", "t", " ", "8", "9", "0", "1", "2">>)}

EmailCells ==
    {NaN, StrCell(<<" ", "A", "n", "a", "@", "M", "a", "i", "l", ".", "C", "O", " ">>), StrCell(<<"a", "n", "a", "@", "m", "a", "i", "l", ".", "c">>)}

NombreCells == {NaN, StrCell(<<"a", "n", "a", " ", " ", "M", "A", "R", "I", "A", " ">>)}

\* pairs of birth date and stated age
NacimientoEdad ==
    {<<NaN, NaN>>, <<NaN, <<30>>>>, <<NaN, <<150>>>>,
     <<StrCell(<<"1", "9", "9", "0", "-", "1", "2", "-", "2", "5">>), <<30>>>>,
     <<StrCell(<<"1", "8", "5", "0", "-", "0", "1", "-", "0", "1">>), NaN>>,
     <<StrCell(<<"2", "0", "3", "0", "-", "0", "1", "-", "0", "1">>), <<5>>>>,
     <<StrCell(<<"n", "o", "t", "-", "a", "-", "d", "a", "t", "e">>), <<40>>>>}

ScoreCells == {NaN, <<100>>}

Ficha(id, nombre, nac_edad, sexo, telefono, email) ==
    [id_paciente |-> id, nombre |-> nombre, fecha_nacimiento |-> nac_edad[1],
     edad |-> nac_edad[2], sexo |-> sexo, telefono |-> telefono, email |-> email]

ColumnasFicha ==
    {"id_paciente", "nombre", "fecha_nacimiento", "edad", "sexo", "telefono", "email"}

\* one-patient tables over every combination of raw fields, with a
\* score_calidad column already present
FichasSueltas ==
    {DataFrame(ColumnasFicha \cup {"score_calidad"},
               <<[score_calidad |-> score] @@ Ficha(<<1>>, nombre, ne, sexo, telefono, email)>>) :
        nombre \in NombreCells, ne \in NacimientoEdad, sexo \in SexoCells,
        telefono \in TelefonoCells, email \in EmailCells, score \in ScoreCells}

FichasTipo ==
    {Ficha(<<1>>, StrCell(<<"A", "n", "a">>), <<StrCell(<<"1", "9", "9", "0", "-", "1", "2", "-", "2", "5">>), <<30>>>>, StrCell(<<"F">>), StrCell(<<"5", "5", "5", "1", "2", "3", "4">>), StrCell(<<"a", "n", "a", "@", "m", "a", "i", "l", ".", "c", "o">>)),
     Ficha(<<2>>, NaN, <<NaN, NaN>>, NaN, NaN, NaN),
     Ficha(<<3>>, StrCell(<<"a", "n", "a", " ", " ", "M", "A", "R", "I", "A", " ">>), <<NaN, <<150>>>>, StrCell(<<"x">>), StrCell(<<"1", "2", "3", "4", "5">>), StrCell(<<"a", "n", "a", "@", "m", "a", "i", "l">>)),
     Ficha(<<4>>, StrCell(<<"l", "u", "i", "s">>), <<StrCell(<<"1", "8", "5", "0", "-", "0", "1", "-", "0", "1">>), NaN>>, StrCell(<<" ", "f", "e", "m", "a", "l", "e", " ">>), StrCell(<<"5", "5", "5", "-", "1", "2", " ", "3", "4">>), NaN)}

\* patient tables of a few typical records
FichasVarias == {DataFrame(ColumnasFicha, filas) : filas \in SeqsUpTo(FichasTipo, MaxFichas)}

CitaTipo(fecha, costo, estado) ==
    [id_cita |-> <<1>>, id_paciente |-> <<1>>, fecha_cita |-> fecha,
     especialidad |-> <<"Cardiología">>, costo |-> costo, estado_cita |-> estado]

CitasTipo ==
    {CitaTipo(StrCell(FmtFecha(2024, "-", 5, 13)), <<100>>, NaN),
     CitaTipo(NaN, NaN, <<"Cancelada">>),
     CitaTipo(StrCell(FmtFecha(2024, "/", 5, 7)), NaN, <<"Completada">>),
     CitaTipo(StrCell(FmtFecha(2024, "-", 13, 5)), <<200>>, NaN)}

\* appointment tables of one or two typical records
CitasVarias ==
    {DataFrame({"id_cita", "id_paciente", "fecha_cita", "especialidad", "costo", "estado_cita"}, filas) :
        filas \in {<<a>> : a \in CitasTipo} \cup {<<a, b>> : a \in CitasTipo, b \in CitasTipo}}

InitLimpieza ==
    /\ \/ /\ pacientes \in FichasSueltas
          /\ citas = DataFrame({"id_cita", "id_paciente", "fecha_cita", "especialidad", "costo", "estado_cita"},
                               <<CitaTipo(StrCell(FmtFecha(2024, "-", 5, 13)), <<100>>, NaN)>>)
       \/ /\ pacientes \in FichasVarias
          /\ citas \in CitasVarias
    /\ hoy = Ahora
    /\ resultados = [op |-> "none"]
    /\ fecha_str = NaN
    /\ fecha_res = NaN
    /\ df_pacientes = pacientes
    /\ df_citas = citas
    /\ paso = Creado
    /\ validador = SinValidador
    /\ orquestador = SinOrquestador

LimpiarPacientes ==
    /\ ~paso.pacientes
    /\ df_pacientes' = limpiar_pacientes(df_pacientes, hoy)
    /\ paso' = [paso EXCEPT !.pacientes = TRUE]
    /\ UNCHANGED <<pacientes, citas, hoy, resultados, fecha_str, fecha_res, df_citas, validador, orquestador>>

\* a new DataCleaner constructed on the tables the previous one returned
Reaplicar ==
    /\ paso.pacientes /\ paso.citas
    /\ paso.vuelta < MaxVueltas
    /\ pacientes' = df_pacientes
    /\ citas' = df_citas
    /\ paso' = [vuelta |-> paso.vuelta + 1, pacientes |-> FALSE, citas |-> FALSE]
    /\ UNCHANGED <<hoy, resultados, fecha_str, fecha_res, df_pacientes, df_citas, validador, orquestador>>

NextLimpieza == LimpiarPacientes \/ LimpiarCitas \/ Reaplicar

SpecLimpieza == InitLimpieza /\ [][NextLimpieza]_vars

\* ------------------------------------------- checks on one DataValidator
MaxChecks == 3

FilaValidada(id, edad, sexo, telefono) ==
    [id_paciente |-> id, edad |-> edad, sexo |-> sexo, telefono |-> telefono]

FilasValidadas ==
    <<FilaValidada(<<1>>, <<30>>, <<"M">>, StrCell(<<"5", "5", "5", "1", "2", "3", "4">>)),
      FilaValidada(<<2>>, NaN, <<"Male">>, StrCell(<<"a", "b", "c", "1", "2", "3">>)),
      FilaValidada(<<1>>, <<150>>, <<"F">>, NaN),
      FilaValidada(<<4>>, <<121>>, <<"X">>, StrCell(<<"1", "2">>)),
      FilaValidada(<<5>>, <<-1>>, <<"m">>, StrCell(<<"5", "5", "5", "-", "1", "2", "3", "4">>)),
      FilaValidada(<<6>>, <<200>>, <<"Female">>, StrCell(<<"1", "2", "3", "4", "5", "6">>)),
      FilaValidada(<<7>>, <<130>>, <<"O">>, StrCell(<<"+", "5", "7", "3", "0", "0", "1", "2">>)),
      FilaValidada(<<8>>, <<999>>, <<"f">>, StrCell(<<"x">>))>>

\* the tables handed to DataValidator: the first rows of FilasValidadas
TablasValidadas ==
    {DataFrame({"id_paciente", "edad", "sexo", "telefono"}, SubSeq(FilasValidadas, 1, n)) :
        n \in 0..Len(FilasValidadas)}

InitValidador ==
    /\ pacientes \in TablasValidadas
    /\ citas = DataFrame({}, <<>>)
    /\ hoy = Ahora
    /\ resultados = [op |-> "none"]
    /\ fecha_str = NaN
    /\ fecha_res = NaN
    /\ df_pacientes = pacientes
    /\ df_citas = citas
    /\ paso = Creado
    /\ validador = DataValidator(pacientes) @@ [invocadas |-> 0, fallidas |-> 0]
    /\ orquestador = SinOrquestador

\* the last call raised
Lanzo == notna(validador.ultimo) /\ "excepcion" \in DOMAIN validador.ultimo[1]

PuedeInvocar == ~Lanzo /\ validador.invocadas < MaxChecks

\* history kept beside the validator: the calls made and those that returned
\* passed = False
Contar(v) ==
    [v EXCEPT !.invocadas = @ + 1,
              !.fallidas = IF "passed" \in DOMAIN v.ultimo[1] /\ ~v.ultimo[1].passed
                           THEN @ + 1 ELSE @]

NoValidador == <<pacientes, citas, hoy, resultados, fecha_str, fecha_res, limpiador, orquestador>>

ValidateNotNull ==
    /\ PuedeInvocar
    /\ \E a \in {<<"id_paciente", 100>>, <<"edad", 95>>, <<"edad", 50>>, <<"ausente", 100>>} :
          validador' = Contar(validate_not_null(validador, a[1], a[2]))
    /\ UNCHANGED NoValidador

ValidateUnique ==
    /\ PuedeInvocar
    /\ \E column \in {"id_paciente", "edad", "ausente"} :
          validador' = Contar(validate_unique(validador, column))
    /\ UNCHANGED NoValidador

ValidateFormat ==
    /\ PuedeInvocar
    /\ \E column \in {"telefono", "ausente"} :
          validador' = Contar(validate_format(validador, column, phone_pattern, "solo dígitos"))
    /\ UNCHANGED NoValidador

ValidateRange ==
    /\ PuedeInvocar
    /\ \E a \in {<<"edad", <<0>>, <<120>>>>, <<"edad", <<0>>, NaN>>, <<"ausente", <<0>>, NaN>>} :
          validador' = Contar(validate_range(validador, a[1], a[2], a[3]))
    /\ UNCHANGED NoValidador

ValidateValueSet ==
    /\ PuedeInvocar
    /\ \E column \in {"sexo", "ausente"} :
          validador' = Contar(validate_value_set(validador, column, {"M", "F"}))
    /\ UNCHANGED NoValidador

ValidateConsistency ==
    /\ PuedeInvocar
    /\ \E a \in {<<"id_paciente", "edad">>, <<"edad", "ausente">>} :
          validador' = Contar(validate_consistency(validador, a[1], a[2], "menor_o_igual"))
    /\ UNCHANGED NoValidador

GetSummary ==
    /\ ~Lanzo
    /\ validador' = [validador EXCEPT !.ultimo = <<get_summary(validador)>>]
    /\ UNCHANGED NoValidador

NextValidador ==
    \/ ValidateNotNull
    \/ ValidateUnique
    \/ ValidateFormat
    \/ ValidateRange
    \/ ValidateValueSet
    \/ ValidateConsistency
    \/ GetSummary

SpecValidador == InitValidador /\ [][NextValidador]_vars

\* ------------------------------------------------- tables against a schema
MaxCambios == 2

Dtypes == {"int64", "int32", "float64", "float32", "object", "datetime64[ns]"}

\* the table that has exactly the columns and dtypes of the schema
TablaConforme(schema) ==
    [columns |-> DOMAIN schema, dtypes |-> [c \in DOMAIN schema |-> schema[c].type], rows |-> <<>>]

\* tables whose columns differ from the schema in at most MaxCambios places
\* (a column absent or of another dtype), with or without an extra column
TablasConTipos(schema) ==
    {LET presentes == {c \in DOMAIN schema : c \notin DOMAIN t \/ t[c] # "ausente"} \cup extra
     IN [columns |-> presentes,
         dtypes |-> [c \in presentes |->
                        IF c \in DOMAIN t THEN t[c]
                        ELSE IF c \in DOMAIN schema THEN schema[c].type ELSE "object"],
         rows |-> <<>>] :
        t \in UNION {[S -> Dtypes \cup {"ausente"}] :
                        S \in {X \in SUBSET DOMAIN schema : Cardinality(X) <= MaxCambios}},
        extra \in {{}, {"observaciones"}}}

MaxFilasEsquema == 2

FilaEsquema(id, nombre, edad, sexo) ==
    [id_paciente |-> id, nombre |-> nombre, fecha_nacimiento |-> <<"1990-12-25">>,
     edad |-> edad, sexo |-> sexo, email |-> NaN, telefono |-> NaN, ciudad |-> <<"Cali">>]

FilasEsquema ==
    {FilaEsquema(<<1>>, <<"Ana">>, <<30>>, <<"F">>),
     FilaEsquema(<<2>>, NaN, <<30>>, <<"F">>),
     FilaEsquema(<<3>>, <<"Luis">>, <<150>>, <<"M">>),
     FilaEsquema(<<4>>, <<"Eva">>, NaN, <<"X">>)}

\* patient tables with the columns and dtypes of the schema and a few rows
TablasConFilas ==
    {[TablaConforme(PACIENTES_SCHEMA) EXCEPT !.rows = filas] :
        filas \in SeqsUpTo(FilasEsquema, MaxFilasEsquema)}

InitEsquema ==
    /\ \/ pacientes \in TablasConTipos(PACIENTES_SCHEMA) /\ citas = TablaConforme(CITAS_SCHEMA)
       \/ pacientes = TablaConforme(PACIENTES_SCHEMA) /\ citas \in TablasConTipos(CITAS_SCHEMA)
       \/ pacientes \in TablasConFilas /\ citas = TablaConforme(CITAS_SCHEMA)
    /\ hoy = Ahora
    /\ resultados = [op |-> "none"]
    /\ fecha_str = NaN
    /\ fecha_res = NaN
    /\ df_pacientes = pacientes
    /\ df_citas = citas
    /\ paso = Creado
    /\ validador = HospitalSchemaValidator
    /\ orquestador = SinOrquestador

ValidatePacientesSchema ==
    /\ resultados.op = "none"
    /\ LET r == validate_schema(validador, pacientes, PACIENTES_SCHEMA, "pacientes")
       IN /\ validador' = r.sv
          /\ resultados' = [op |-> "validate_pacientes_schema", results |-> r.results]
    /\ UNCHANGED <<pacientes, citas, hoy, fecha_str, fecha_res, limpiador, orquestador>>

ValidateCitasSchema ==
    /\ resultados.op = "none"
    /\ LET r == validate_schema(validador, citas, CITAS_SCHEMA, "citas")
       IN /\ validador' = r.sv
          /\ resultados' = [op |-> "validate_citas_schema", results |-> r.results]
    /\ UNCHANGED <<pacientes, citas, hoy, fecha_str, fecha_res, limpiador, orquestador>>

NextEsquema == ValidatePacientesSchema \/ ValidateCitasSchema

SpecEsquema == InitEsquema /\ [][NextEsquema]_vars

\* ------------------------------------------- the referential rule, 3 ways
MaxReferencias == 2

FichaRef(id) == Ficha(id, StrCell(<<"A", "n", "a">>), <<StrCell(<<"1", "9", "9", "0", "-", "1", "2", "-", "2", "5">>), <<35>>>>, StrCell(<<"F">>), StrCell(<<"5", "5", "5", "1", "2", "3", "4">>), NaN)

CitaRef(i, id_paciente) ==
    [id_cita |-> <<i>>, id_paciente |-> id_paciente,
     fecha_cita |-> StrCell(FmtFecha(2024, "-", 5, 13)),
     especialidad |-> <<"Cardiología">>, costo |-> <<100>>, estado_cita |-> <<"Completada">>]

\* patient tables whose identifiers vary, null included
PacientesRef ==
    {DataFrame(ColumnasFicha, [i \in 1..Len(ids) |-> FichaRef(ids[i])]) :
        ids \in {<<>>, <<<<1>>>>, <<<<1>>, <<2>>>>, <<<<2>>, <<1>>>>, <<NaN, <<1>>>>}}

\* appointment tables whose references vary, without and with a
\* paciente_valido column already set
CitasRef ==
    {DataFrame({"id_cita", "id_paciente", "fecha_cita", "especialidad", "costo", "estado_cita"},
               [i \in 1..Len(ids) |-> CitaRef(i, ids[i])]) :
        ids \in SeqsUpTo({NaN, <<1>>, <<2>>, <<999>>}, MaxReferencias)}
    \cup
    {DataFrame({"id_cita", "id_paciente", "fecha_cita", "especialidad", "costo", "estado_cita",
                "paciente_valido"},
               [i \in 1..Len(ids) |-> [paciente_valido |-> TRUE] @@ CitaRef(i, ids[i])]) :
        ids \in SeqsUpTo({NaN, <<1>>, <<2>>, <<999>>}, MaxReferencias)}

InitReferencial ==
    /\ pacientes \in PacientesRef
    /\ citas \in CitasRef
    /\ hoy = Ahora
    /\ resultados = [op |-> "none"]
    /\ fecha_str = NaN
    /\ fecha_res = NaN
    /\ df_pacientes = pacientes
    /\ df_citas = citas
    /\ paso = Creado
    /\ validador = [ultimo |-> NaN] @@ HospitalSchemaValidator
    /\ orquestador = SinOrquestador

ValidateDataIntegrity ==
    /\ "ultimo" \in DOMAIN validador /\ "warnings" \in DOMAIN validador
    /\ isna(validador.ultimo)
    /\ LET r == validate_data_integrity(validador, pacientes, citas)
       IN /\ validador' = [r.sv EXCEPT !.ultimo = <<r.results>>]
          /\ pacientes' = r.pacientes_df
          /\ citas' = r.citas_df
    /\ UNCHANGED <<hoy, resultados, fecha_str, fecha_res, limpiador, orquestador>>

NextReferencial ==
    \/ ValidateForeignKeys
    \/ ValidateDataIntegrity
    \/ LimpiarPacientes
    \/ LimpiarCitas

SpecReferencial == InitReferencial /\ [][NextReferencial]_vars

\* ------------------------------------------------- PipelineOrchestrator
\* the largest return code a stage script exits with
MaxReturnCode == 2

script_order == <<"01_exploratorio.py", "02_limpieza.py", "03_validaciones.py", "04_informe.py">>

\* PipelineOrchestrator(), with the position of run() and, beside it, the
\* stages attempted so far and how each ended
PipelineOrchestrator ==
    [results |-> <<>>, pc |-> "creado", i |-> 1, all_success |-> TRUE, intentos |-> <<>>]

\* what one attempt to run a stage script can come to: the path is missing,
\* subprocess.run raises, or the child exits with a return code
Desenlaces ==
    {[tipo |-> "ausente"], [tipo |-> "excepcion"]}
    \cup {[tipo |-> "salida", return_code |-> c] : c \in 0..MaxReturnCode}

\* run, lines 230-236: after a failed stage only 02_limpieza.py clears
\* all_success and leaves the loop
TrasFallo(o, script_name) ==
    IF script_name = "02_limpieza.py"
    THEN [o EXCEPT !.all_success = FALSE, !.pc = "fin"]
    ELSE [o EXCEPT !.i = @ + 1, !.pc = IF o.i = Len(script_order) THEN "fin" ELSE "bucle"]

\* execute_script(script_name, description) ending as d: the orchestrator
\* after the call and the value returned
execute_script(o, script_name, d) ==
    CASE d.tipo = "ausente" -> [o |-> o, success |-> FALSE]
      [] d.tipo = "excepcion" ->
            [o |-> [o EXCEPT !.results = Guardar(@, script_name, [error |-> "excepcion"])],
             success |-> FALSE]
      [] d.tipo = "salida" ->
            [o |-> [o EXCEPT !.results =
                        Guardar(@, script_name, [return_code |-> d.return_code])],
             success |-> d.return_code = 0]

InitPipeline ==
    /\ pacientes = DataFrame({}, <<>>)
    /\ citas = DataFrame({}, <<>>)
    /\ hoy = Ahora
    /\ resultados = [op |-> "none"]
    /\ fecha_str = NaN
    /\ fecha_res = NaN
    /\ df_pacientes = pacientes
    /\ df_citas = citas
    /\ paso = Creado
    /\ validador = SinValidador
    /\ orquestador = PipelineOrchestrator

NoOrquestador == <<pacientes, citas, hoy, resultados, fecha_str, fecha_res, limpiador, validador>>

\* run, lines 220-227: check_requirements returns True or ends the process
\* with sys.exit(1)
CheckRequirements ==
    /\ orquestador.pc = "creado"
    /\ \E all_ok \in BOOLEAN :
          orquestador' =
              IF all_ok THEN [orquestador EXCEPT !.pc = "bucle"]
              ELSE [orquestador EXCEPT !.pc = "terminado"] @@ [exit_code |-> 1]
    /\ UNCHANGED NoOrquestador

\* one turn of the loop of run, lines 228-237
ExecuteScript ==
    /\ orquestador.pc = "bucle"
    /\ \E d \in Desenlaces :
          LET script_name == script_order[orquestador.i]
              r == execute_script(orquestador, script_name, d)
              o == [r.o EXCEPT !.intentos = Append(@, [script |-> script_name, desenlace |-> d])]
          IN orquestador' =
                 IF r.success
                 THEN [o EXCEPT !.i = @ + 1,
                                !.pc = IF o.i = Len(script_order) THEN "fin" ELSE "bucle"]
                 ELSE TrasFallo(o, script_name)
    /\ UNCHANGED NoOrquestador

\* run, lines 239-249, and main, lines 300-301: the report is written when
\* all_success, or fails to be; run returns all_success and the process exits
\* with 0 or 1
Return ==
    /\ orquestador.pc = "fin"
    /\ \E reporte_escrito \in BOOLEAN :
          orquestador' =
              IF orquestador.all_success /\ ~reporte_escrito
              THEN [orquestador EXCEPT !.pc = "terminado"] @@ [exit_code |-> 1]
              ELSE [orquestador EXCEPT !.pc = "terminado"]
                   @@ [retorno |-> orquestador.all_success,
                       exit_code |-> IF orquestador.all_success THEN 0 ELSE 1]
    /\ UNCHANGED NoOrquestador

NextPipeline ==
    \/ CheckRequirements
    \/ ExecuteScript
    \/ Return

SpecPipeline == InitPipeline /\ [][NextPipeline]_vars

\* ------------------------------------------------------------------ claims
IdsOf(df) == {i \in 1..Len(df.rows) : notna(df.rows[i].id_paciente)}

\* the child identifiers that no parent row holds
AbsentIds ==
    {citas.rows[i].id_paciente[1] : i \in
        {k \in IdsOf(citas) :
            \A j \in 1..Len(pacientes.rows) :
                pacientes.rows[j].id_paciente # citas.rows[k].id_paciente}}

FKCall ==
    /\ resultados.op = "validate_foreign_keys"
    /\ "id_paciente" \in citas.columns
    /\ "id_paciente" \in pacientes.columns

\* C1: validate_foreign_keys, both columns present, passes exactly when every
\* (non-null) value of the child column is a value of the parent column;
\* invalid_ids is the set of child values absent from the parent and
\* invalid_references is its size.
C1_ForeignKeys ==
    FKCall =>
        /\ resultados.res.passed = (AbsentIds = {})
        /\ resultados.res.invalid_ids = AbsentIds
        /\ resultados.res.invalid_references = Cardinality(AbsentIds)

\* patients {1, 2}, an appointment of patient 999: failed, one invalid reference
C1_Witness ==
    /\ FKCall
    /\ {pacientes.rows[j].id_paciente : j \in 1..Len(pacientes.rows)} = {<<1>>, <<2>>}
    /\ \E i \in 1..Len(citas.rows) : citas.rows[i].id_paciente = <<999>>
    /\ resultados.res.passed = FALSE
    /\ resultados.res.invalid_references = 1
    /\ 999 \in resultados.res.invalid_ids

AllCall ==
    /\ resultados.op = "validate_all_integrity"
    /\ citas.columns = {"id_cita", "id_paciente", "fecha_cita", "estado_cita", "especialidad"}
    /\ "id_paciente" \in pacientes.columns

Tests == resultados.res.tests

\* C2: in validate_all_integrity an appointment whose id_paciente is not a
\* patient identifier makes overall_passed false; overall_passed implies that
\* the referential check passed.
C2_ReferentialCritical ==
    AllCall =>
        /\ AbsentIds # {} => ~resultados.res.overall_passed
        /\ resultados.res.overall_passed => Tests.referencial_pacientes.passed

\* the referential check is the only one that failed
C2_Witness ==
    /\ AllCall
    /\ AbsentIds # {}
    /\ ~resultados.res.overall_passed
    /\ resultados.res.summary.failed_tests = 1

\* C3: in validate_all_integrity a failed age-range check (edad present) or a
\* failed duplicate-identifier check makes overall_passed false.
C3_AgeAndDuplicatesGate ==
    AllCall =>
        /\ (Tests.rango_edad # <<>> /\ ~Tests.rango_edad[1].passed)
               => ~resultados.res.overall_passed
        /\ ~Tests.unicidad_ids["pacientes"].passed => ~resultados.res.overall_passed
        /\ ~Tests.unicidad_ids["citas"].passed => ~resultados.res.overall_passed

\* the appointment table with every status and specialty replaced by v
WithEstados(df, estado, especialidad) ==
    DataFrame(df.columns,
              [i \in 1..Len(df.rows) |->
                  [df.rows[i] EXCEPT !.estado_cita = estado, !.especialidad = especialidad]])

FailedTests ==
    Cardinality({t \in {"referencial_pacientes", "coherencia_fechas",
                        "estados_cita", "especialidades"} : ~Tests[t].passed})
    + (IF Tests.rango_edad # <<>> /\ ~Tests.rango_edad[1].passed THEN 1 ELSE 0)
    + Cardinality({t \in DOMAIN Tests.unicidad_ids : ~Tests.unicidad_ids[t].passed})

\* C4: the status and specialty value-set checks never change overall_passed:
\* the same tables with every status and specialty valid, or every one null,
\* give the same overall_passed; failed_tests counts every failed check.
C4_StatusSpecialtyDoNotGate ==
    AllCall =>
        /\ resultados.res.overall_passed =
               validate_all_integrity(
                   pacientes, WithEstados(citas, <<"Completada">>, <<"Cardiología">>),
                   hoy).overall_passed
        /\ resultados.res.overall_passed =
               validate_all_integrity(pacientes, WithEstados(citas, NaN, NaN), hoy).overall_passed
        /\ resultados.res.summary.failed_tests = FailedTests

\* both value-set checks failed, are counted, and the overall result is true
C4_Witness ==
    /\ AllCall
    /\ ~Tests.estados_cita.passed
    /\ ~Tests.especialidades.passed
    /\ resultados.res.summary.failed_tests = 2
    /\ resultados.res.overall_passed

\* rows of the appointment table whose date does not parse (null included)
Unparseable == {i \in 1..Len(citas.rows) : isna(to_datetime(citas.rows[i].fecha_cita))}

\* rows whose date is later than hoy + days
Beyond(days) ==
    {i \in 1..Len(citas.rows) :
        /\ notna(to_datetime(citas.rows[i].fecha_cita))
        /\ ToOrdinal(to_datetime(citas.rows[i].fecha_cita)[1]) - ToOrdinal(hoy) > days}

ColumnCall ==
    /\ resultados.op = "validate_column_values"
    /\ resultados.column \in citas.columns

\* rows whose value is null or no member of valid_values
InvalidRows ==
    {i \in 1..Len(citas.rows) :
        \/ citas.rows[i][resultados.column] = NaN
        \/ \A v \in resultados.valid_values : citas.rows[i][resultados.column] # <<v>>}

\* C6: validate_column_values counts nulls as invalid: invalid_count is the
\* number of rows null or outside valid_values, passed is invalid_count = 0,
\* and valid_values_count + invalid_count is the number of rows.
C6_ColumnValues ==
    ColumnCall =>
        /\ resultados.res.invalid_count = Cardinality(InvalidRows)
        /\ resultados.res.passed = (resultados.res.invalid_count = 0)
        /\ resultados.res.valid_values_count + resultados.res.invalid_count = Len(citas.rows)

\* one null status among three rows, the other two valid
C6_Witness ==
    /\ ColumnCall
    /\ resultados.column = "estado_cita"
    /\ Len(citas.rows) = 3
    /\ Cardinality({i \in 1..3 : isna(citas.rows[i].estado_cita)}) = 1
    /\ resultados.res.invalid_count = 1
    /\ resultados.res.valid_values_count = 2
    /\ ~resultados.res.passed


\* ---------------------------------------------------- date disambiguator
Llamada == fecha_res # NaN

Res == fecha_res[1]

\* C7: a raw date whose second and third components are both <= 12, such as
\* "2024-05-07", resolves to month = comp1, day = comp2, flagged ambiguous,
\* with the tag AMBIGUA_ASUMIDO_MMDD(comp1-comp2).
C7_AmbiguousAssumed ==
    \A y \in Anios, a \in Comps \cap 1..12, b \in Comps \cap 1..12 :
        (Llamada /\ fecha_str = Texto(FmtFecha(y, "-", a, b))) =>
            Res = Resultado(<<Timestamp(y, a, b)>>, TRUE,
                            "AMBIGUA_ASUMIDO_MMDD(" \o ToString(a) \o "-" \o ToString(b) \o ")")

CadenaNoVacia ==
    /\ Llamada
    /\ notna(fecha_str)
    /\ fecha_str[1].kind = "str"
    /\ strip(fecha_str[1].chars) # <<>>

PartesCrudas == re_split(strip(fecha_str[1].chars), SepsFecha)

TresNumericos ==
    Len(PartesCrudas) = 3 /\ \A k \in 1..3 : notna(int(PartesCrudas[k]))

\* C9 as stated: a raw string that does not split into three numeric
\* components returns (null, false, FORMATO_INVALIDO).
C9_NotThreeNumeric ==
    (CadenaNoVacia /\ ~TresNumericos) => Res = Resultado(NaN, FALSE, "FORMATO_INVALIDO")

\* C9 amended: a raw string that does not split into exactly three parts on
\* '-', '/' or '.' returns (null, false, FORMATO_INVALIDO); one that splits
\* into three parts that are not all integers, such as "not-a-date", returns
\* (null, false, 'ERROR: ' followed by the text of int()'s error).
C9_FormatoOrError ==
    /\ (CadenaNoVacia /\ Len(PartesCrudas) # 3) =>
           Res = Resultado(NaN, FALSE, "FORMATO_INVALIDO")
    /\ (CadenaNoVacia /\ Len(PartesCrudas) = 3 /\ ~TresNumericos) =>
           /\ Res.fecha = NaN
           /\ ~Res.es_ambigua
           /\ \E k \in 1..3 :
                 /\ isna(int(PartesCrudas[k]))
                 /\ Res.motivo = "ERROR: invalid literal for int() with base 10: '"
                                 \o StrOf(PartesCrudas[k]) \o "'"
    /\ (Llamada /\ fecha_str = Texto(<<"n", "o", "t", "-", "a", "-", "d", "a", "t", "e">>)) =>
           Res.motivo = "ERROR: invalid literal for int() with base 10: 'not'"

\* "not-a-date" was resolved: null, not ambiguous, an ERROR tag
C9_Witness ==
    /\ Llamada
    /\ fecha_str = Texto(<<"n", "o", "t", "-", "a", "-", "d", "a", "t", "e">>)
    /\ Res.fecha = NaN
    /\ ~Res.es_ambigua
    /\ Res.motivo # "FORMATO_INVALIDO"


\* -------------------------------------------------------- cost imputation
Limpias == paso.citas

\* the observed input costs of a specialty, as a bag: cost -> number of rows
CostosDe(e) == {i \in 1..Len(citas.rows) : citas.rows[i].especialidad = e /\ notna(citas.rows[i].costo)}

\* m is the median of the observed costs of specialty e: the middle row (odd
\* count) or the two middle rows (even count) split the others into as many
\* rows at or below as rows at or above, and m is the mean of the middle
EsMediana(m, e) ==
    LET I == CostosDe(e)
        n == Cardinality(I)
        c(i) == citas.rows[i].costo[1]
    IN \E lo \in I, hi \in I :
          /\ (lo = hi) <=> (n % 2 = 1)
          /\ c(lo) <= c(hi)
          /\ 2 * m = c(lo) + c(hi)
          /\ \E L \in SUBSET (I \ {lo, hi}) :
                /\ 2 * Cardinality(L) = Cardinality(I \ {lo, hi})
                /\ \A i \in L : c(i) <= c(lo)
                /\ \A i \in (I \ {lo, hi}) \ L : c(i) >= c(hi)

CardiologiaCienDoscientosNulo(k) ==
    LET I == {i \in 1..Len(citas.rows) : citas.rows[i].especialidad = <<"Cardiología">>}
    IN /\ Cardinality(I) = 3
       /\ k \in I
       /\ citas.rows[k].costo = NaN
       /\ {citas.rows[i].costo : i \in I \ {k}} = {<<100>>, <<200>>}

\* C11 as stated: with the Cardiología costs [100, 200, null] the null cost
\* is replaced with 200.
C11_ImputedTwoHundred ==
    \A k \in 1..Len(citas.rows) :
        (Limpias /\ CardiologiaCienDoscientosNulo(k)) => df_citas.rows[k].costo = <<200>>

\* C11 amended: with the Cardiología costs [100, 200, null] the null cost is
\* replaced with 150, the mean of the two observed values.
C11_ImputedMean ==
    \A k \in 1..Len(citas.rows) :
        (Limpias /\ CardiologiaCienDoscientosNulo(k)) => df_citas.rows[k].costo = <<150>>

\* a cleaned table whose three Cardiología rows held 100, 200 and null
C11_Witness ==
    /\ Limpias
    /\ \E k \in 1..Len(citas.rows) :
          /\ CardiologiaCienDoscientosNulo(k)
          /\ df_citas.rows[k].costo = <<150>>
          /\ \A i \in 1..Len(citas.rows) :
                notna(citas.rows[i].costo) => df_citas.rows[i].costo = citas.rows[i].costo


\* ------------------------------------------------ status and future dates
\* the midnight of ts is before the instant now
AntesDe(ts, now) ==
    \/ ToOrdinal(ts) < ToOrdinal(now)
    \/ ToOrdinal(ts) = ToOrdinal(now) /\ now.tod > 0

\* C12: after the appointment pass a null input status is 'No Programada'
\* when the date left by the future-date step is null, 'Completada' when that
\* date is before the processing time and 'Programada' otherwise; a non-null
\* input status is unchanged; no status is null.
C12_StatusImputation ==
    Limpias =>
        \A i \in 1..Len(citas.rows) :
            LET antes == citas.rows[i]
                despues == df_citas.rows[i]
            IN /\ notna(despues.estado_cita)
               /\ notna(antes.estado_cita) => despues.estado_cita = antes.estado_cita
               /\ isna(antes.estado_cita) =>
                     despues.estado_cita =
                         IF isna(despues.fecha_cita) THEN <<"No Programada">>
                         ELSE IF AntesDe(despues.fecha_cita[1].ts, hoy) THEN <<"Completada">>
                         ELSE <<"Programada">>

\* a run later in the day: a null status dated today became 'Completada', one
\* dated tomorrow 'Programada'
C12_Witness ==
    /\ Limpias
    /\ hoy = Ahora
    /\ Len(citas.rows) = 2
    /\ citas.rows[1].estado_cita = NaN /\ citas.rows[2].estado_cita = NaN
    /\ df_citas.rows[1].fecha_cita = TsCell(Timestamp(2026, 11, 2))
    /\ df_citas.rows[1].estado_cita = <<"Completada">>
    /\ df_citas.rows[2].fecha_cita = TsCell(Timestamp(2026, 11, 3))
    /\ df_citas.rows[2].estado_cita = <<"Programada">>

\* ts is at most n calendar years after the instant now
NoMasDeAnios(ts, now, n) ==
    \/ ts.year - n < now.year
    \/ ts.year - n = now.year /\ ts.month < now.month
    \/ ts.year - n = now.year /\ ts.month = now.month /\ ts.day <= now.day

\* C13: after the appointment pass every non-null fecha_cita is at most 2
\* years after the processing time; a resolved date beyond that is null and a
\* resolved date within it is kept.
C13_FutureRejection ==
    Limpias =>
        \A i \in 1..Len(citas.rows) :
            LET resuelta == corregir_fecha_inteligente(citas.rows[i].fecha_cita).fecha
                despues == df_citas.rows[i].fecha_cita
            IN /\ notna(despues) => NoMasDeAnios(despues[1].ts, hoy, 2)
               /\ (notna(resuelta) /\ ~NoMasDeAnios(resuelta[1], hoy, 2)) => isna(despues)
               /\ (notna(resuelta) /\ NoMasDeAnios(resuelta[1], hoy, 2)) =>
                      despues = TsCell(resuelta[1])

\* a date exactly two years ahead was kept and the next day was set to null
C13_Witness ==
    /\ Limpias
    /\ hoy = Ahora
    /\ Len(citas.rows) = 2
    /\ citas.rows[1].fecha_cita = StrCell(FmtFecha(2028, "-", 11, 2))
    /\ df_citas.rows[1].fecha_cita = TsCell(Timestamp(2028, 11, 2))
    /\ citas.rows[2].fecha_cita = StrCell(FmtFecha(2028, "-", 11, 3))
    /\ df_citas.rows[2].fecha_cita = NaN


\* ------------------------------------------------------------ patient pass
PacientesLimpios == paso.pacientes

\* the raw sexo, trimmed and in upper case, is one of the words
SexoEs(cell, palabras) == notna(cell) /\ upper(strip(str(cell))) \in palabras

\* C15: after the patient pass sexo is 'M', 'F' or null (F/FEMALE give F and
\* M/MALE give M, ignoring case and surrounding blanks, anything else null)
\* and telefono is null or the digits of the raw phone, 7 to 15 of them.
C15_SexoTelefono ==
    PacientesLimpios =>
        \A i \in 1..Len(pacientes.rows) :
            LET antes == pacientes.rows[i]
                despues == df_pacientes.rows[i]
            IN /\ despues.sexo \in {NaN, StrCell(<<"M">>), StrCell(<<"F">>)}
               /\ despues.sexo = StrCell(<<"F">>) <=>
                      SexoEs(antes.sexo, {<<"F">>, <<"F", "E", "M", "A", "L", "E">>})
               /\ despues.sexo = StrCell(<<"M">>) <=>
                      SexoEs(antes.sexo, {<<"M">>, <<"M", "A", "L", "E">>})
               /\ notna(despues.telefono) =>
                      LET tel == despues.telefono[1].chars
                      IN /\ notna(antes.telefono)
                         /\ \A k \in 1..Len(tel) : IsDigit(tel[k])
                         /\ Len(tel) \in 7..15
                         /\ tel = SelectSeq(str(antes.telefono), IsDigit)

\* ' female ' became F and '555-12 34' became '5551234'
C15_Witness ==
    /\ PacientesLimpios
    /\ paso.vuelta = 1
    /\ \E i \in 1..Len(pacientes.rows) :
          /\ pacientes.rows[i].sexo = StrCell(<<" ", "f", "e", "m", "a", "l", "e", " ">>)
          /\ df_pacientes.rows[i].sexo = StrCell(<<"F">>)
          /\ pacientes.rows[i].telefono = StrCell(<<"5", "5", "5", "-", "1", "2", " ", "3", "4">>)
          /\ df_pacientes.rows[i].telefono = StrCell(<<"5", "5", "5", "1", "2", "3", "4">>)

NoNulos(row) == Cardinality({c \in {"nombre", "edad", "sexo", "telefono", "email"} : notna(row[c])})

\* C16: after the patient pass score_calidad is 20 times the number of
\* non-null fields among nombre, edad, sexo, telefono and email as normalised;
\* it is a multiple of 20 up to 100, 100 exactly when the five are non-null,
\* whatever score_calidad the input carried.
C16_ScoreCalidad ==
    PacientesLimpios =>
        \A i \in 1..Len(pacientes.rows) :
            LET despues == df_pacientes.rows[i]
            IN /\ despues.score_calidad = <<20 * NoNulos(despues)>>
               /\ despues.score_calidad[1] \in {0, 20, 40, 60, 80, 100}
               /\ despues.score_calidad[1] = 100 <=> NoNulos(despues) = 5

\* an input that carried score_calidad 100 and whose cleaned record has three
\* of the five fields
C16_Witness ==
    /\ PacientesLimpios
    /\ paso.vuelta = 1
    /\ "score_calidad" \in pacientes.columns
    /\ pacientes.rows[1].score_calidad = <<100>>
    /\ NoNulos(df_pacientes.rows[1]) = 3
    /\ df_pacientes.rows[1].score_calidad = <<60>>

\* C17: after the patient pass every non-null edad is within [0, 120] and the
\* age-range check passes on the cleaned patient table.
C17_EdadEnRango ==
    PacientesLimpios =>
        /\ \A i \in 1..Len(df_pacientes.rows) :
              notna(df_pacientes.rows[i].edad) => df_pacientes.rows[i].edad[1] \in 0..120
        /\ validate_numeric_range(df_pacientes, "edad", <<EdadMin>>, <<EdadMax>>).passed

\* ---------------------------------------------------------------- re-run
\* the second cleaner has run both passes: pacientes and citas hold the
\* output of the first, df_pacientes and df_citas the output of the second
Relimpio == paso.vuelta = 2 /\ paso.pacientes /\ paso.citas

CeldasDeCita ==
    {"id_cita", "id_paciente", "fecha_cita", "especialidad", "costo", "estado_cita",
     "fecha_cita_original", "anio_mes"}

CeldasDePaciente == ColumnasFicha \cup {"score_calidad"}

\* C14: cleaning the output of a cleaning again makes no field null that was
\* non-null, keeps every non-null fecha_cita as it was, and keeps the quality
\* score of every complete patient.
C14_Idempotent ==
    Relimpio =>
        /\ \A i \in 1..Len(pacientes.rows) :
              /\ \A c \in CeldasDePaciente :
                    notna(pacientes.rows[i][c]) => notna(df_pacientes.rows[i][c])
              /\ pacientes.rows[i].score_calidad = <<100>> =>
                    df_pacientes.rows[i].score_calidad = <<100>>
        /\ \A i \in 1..Len(citas.rows) :
              /\ \A c \in CeldasDeCita :
                    notna(citas.rows[i][c]) => notna(df_citas.rows[i][c])
              /\ notna(citas.rows[i].fecha_cita) =>
                    df_citas.rows[i].fecha_cita = citas.rows[i].fecha_cita


\* ----------------------------------------------------------- DataValidator
Ultimo == validador.ultimo[1]

\* the last call named a column the table lacks
ColumnaAusente ==
    /\ notna(validador.ultimo)
    /\ \/ "column" \in DOMAIN Ultimo /\ Ultimo.column \notin validador.df.columns
       \/ "columns" \in DOMAIN Ultimo /\ \E k \in 1..2 : Ultimo.columns[k] \notin validador.df.columns

\* C18: a check invoked with a column the table lacks does not raise; it
\* returns a result with passed = False and a message.
C18_MissingColumnNoRaise ==
    ColumnaAusente =>
        /\ ~Lanzo
        /\ "passed" \in DOMAIN Ultimo /\ ~Ultimo.passed
        /\ "message" \in DOMAIN Ultimo /\ Ultimo.message # ""

\* the last return is a summary
Resumido == notna(validador.ultimo) /\ "total_tests" \in DOMAIN Ultimo

\* C19: get_summary counts every check invoked on the instance: total_tests
\* is the number of invocations, failed_tests the number that returned
\* passed = False, passed_tests + failed_tests = total_tests, and success_rate
\* is passed_tests / total_tests as a percentage, 0 without invocations.
C19_SummaryAggregates ==
    Resumido =>
        /\ Ultimo.total_tests = validador.invocadas
        /\ Ultimo.failed_tests = validador.fallidas
        /\ Ultimo.passed_tests + Ultimo.failed_tests = Ultimo.total_tests
        /\ Ultimo.success_rate =
              IF Ultimo.total_tests = 0 THEN 0
              ELSE Redondeo4(Ultimo.passed_tests, Ultimo.total_tests)


\* ------------------------------------------------- HospitalSchemaValidator
\* the table and schema of the schema validation that has run
EsquemaValidado == resultados.op \in {"validate_pacientes_schema", "validate_citas_schema"}

TablaValidada == IF resultados.op = "validate_pacientes_schema" THEN pacientes ELSE citas

EsquemaUsado == IF resultados.op = "validate_pacientes_schema" THEN PACIENTES_SCHEMA ELSE CITAS_SCHEMA

Numericos == {"int64", "int32", "float64", "float32"}

\* the dtype found satisfies the declared one
Compatible(declarado, hallado) ==
    IF declarado \in {"int64", "float64"} THEN hallado \in Numericos
    ELSE declarado = "object" /\ hallado = "object"

\* C20: schema validation passes exactly when no expected column is missing
\* and every expected column present has a compatible dtype (the four numeric
\* dtypes interchangeable, 'object' only for 'object'); extra columns are
\* listed and warned about and do not change passed.
C20_SchemaPassed ==
    EsquemaValidado =>
        LET df == TablaValidada
            schema == EsquemaUsado
            r == resultados.results
        IN /\ r.passed <=>
                 /\ DOMAIN schema \subseteq df.columns
                 /\ \A c \in DOMAIN schema \cap df.columns : Compatible(schema[c].type, df.dtypes[c])
           /\ r.missing_columns = DOMAIN schema \ df.columns
           /\ r.extra_columns = df.columns \ DOMAIN schema
           /\ (validador.warnings # <<>>) <=> (df.columns \ DOMAIN schema # {})

\* a citas table with an extra column, id_paciente as float32 and costo as
\* int64 passed, with the extra column listed and a warning
C20_Witness ==
    /\ resultados.op = "validate_citas_schema"
    /\ citas.columns = DOMAIN CITAS_SCHEMA \cup {"observaciones"}
    /\ citas.dtypes["id_paciente"] = "float32"
    /\ citas.dtypes["costo"] = "int64"
    /\ resultados.results.passed
    /\ resultados.results.extra_columns = {"observaciones"}
    /\ Len(validador.warnings) = 1


\* the table breaks a constraint its schema declares
ViolaRestriccion(df, schema) ==
    \E c \in DOMAIN schema \cap df.columns :
        LET spec == schema[c]
            col == Columna(df, c)
        IN \/ ~spec.nullable /\ \E i \in DOMAIN col : isna(col[i])
           \/ /\ "unique" \in DOMAIN spec
              /\ \E i, j \in DOMAIN col : i # j /\ col[i] = col[j]
           \/ /\ "allowed_values" \in DOMAIN spec
              /\ \E i \in DOMAIN col : notna(col[i]) /\ col[i][1] \notin spec.allowed_values
           \/ /\ "min" \in DOMAIN spec
              /\ \E i \in DOMAIN col : notna(col[i]) /\ (col[i][1] < spec.min \/ col[i][1] > spec.max)

\* C21: schema validation of a table that holds a null in a non-nullable
\* column, a duplicate in a unique column, a value outside allowed_values or
\* a number outside min/max returns passed = False and records the violation
\* in constraint_violations.
C21_ConstraintsChecked ==
    (EsquemaValidado /\ ViolaRestriccion(TablaValidada, EsquemaUsado)) =>
        /\ ~resultados.results.passed
        /\ resultados.results.constraint_violations # {}


\* ---------------------------------------------------------------- C22
\* C22: no validator operation adds, removes or changes a row, a column or a
\* value of the patient or appointment table passed to it. Every step of
\* SpecReferencial is a validator operation on the two tables or a cleaning
\* pass on the cleaner's own copies, so no step may change pacientes or citas.
\* validate_data_integrity adds a column to each table.
C22_TablesImmutable ==
    [][pacientes' = pacientes /\ citas' = citas]_vars

\* ---------------------------------------------------------------- C23
MismosRegistros(antes, despues, id) ==
    /\ Len(despues.rows) = Len(antes.rows)
    /\ \A i \in 1..Len(antes.rows) : despues.rows[i][id] = antes.rows[i][id]

\* C23: cleaning rejects no record: the cleaned patient and appointment tables
\* hold the records of the input, same count, same identifiers, same order,
\* and paciente_valido of a cleaned appointment is true exactly when its
\* id_paciente is among the identifiers of the patient table (a null
\* id_paciente is among them only when a patient has a null identifier),
\* whatever paciente_valido the input carried.
C23_DetectedNotRejected ==
    /\ paso.pacientes => MismosRegistros(pacientes, df_pacientes, "id_paciente")
    /\ paso.citas =>
        /\ MismosRegistros(citas, df_citas, "id_cita")
        /\ MismosRegistros(citas, df_citas, "id_paciente")
        /\ \A i \in 1..Len(df_citas.rows) :
              df_citas.rows[i].paciente_valido
                  <=> \E j \in 1..Len(pacientes.rows) :
                          pacientes.rows[j].id_paciente = citas.rows[i].id_paciente

\* both passes done; an appointment of an unknown patient that came flagged
\* valid is kept and flagged invalid, next to one of a known patient
C23_Witness ==
    /\ paso.pacientes /\ paso.citas
    /\ Len(df_citas.rows) = 2
    /\ "paciente_valido" \in citas.columns
    /\ citas.rows[1].id_paciente = <<999>> /\ citas.rows[1].paciente_valido
    /\ ~df_citas.rows[1].paciente_valido
    /\ df_citas.rows[2].paciente_valido
    /\ Len(df_pacientes.rows) = 2

\* ---------------------------------------------------------------- C27
TresHechas ==
    /\ resultados.op = "validate_foreign_keys"
    /\ "ultimo" \in DOMAIN validador /\ notna(validador.ultimo)
    /\ paso.citas

\* C27: on every pair of tables validate_foreign_keys passes,
\* validate_data_integrity passes and the cleaner marks every appointment
\* paciente_valido = true, either all three or none. An appointment with a null
\* id_paciente separates them.
C27_ThreeAgree ==
    TresHechas =>
        /\ resultados.res.passed <=> validador.ultimo[1].passed
        /\ resultados.res.passed <=>
               \A i \in 1..Len(df_citas.rows) : df_citas.rows[i].paciente_valido


\* ---------------------------------------------------------------- C24
\* the last return is that of a format, range or value-set check on a column
\* of the table
ConteoHecho ==
    /\ "df" \in DOMAIN validador /\ notna(validador.ultimo)
    /\ "rule" \in DOMAIN Ultimo /\ Ultimo.rule \in {"format", "range", "value_set"}
    /\ Ultimo.column \in validador.df.columns

\* the value of a non-null cell is invalid for the check that returned
ValorInvalido(cell) ==
    CASE Ultimo.rule = "format" ->
            ~(/\ cell[1].kind = "str"
              /\ Len(cell[1].chars) >= 7 /\ Len(cell[1].chars) <= 15
              /\ \A k \in 1..Len(cell[1].chars) :
                    cell[1].chars[k] \in {"0", "1", "2", "3", "4", "5", "6", "7", "8", "9"})
      [] Ultimo.rule = "range" ->
            \/ Ultimo.min # NaN /\ cell[1] < Ultimo.min[1]
            \/ Ultimo.max # NaN /\ cell[1] > Ultimo.max[1]
      [] Ultimo.rule = "value_set" -> cell[1] \notin Ultimo.allowed_values

Ejemplos ==
    IF "invalid_examples" \in DOMAIN Ultimo THEN Ultimo.invalid_examples
    ELSE IF "out_of_range_examples" \in DOMAIN Ultimo THEN Ultimo.out_of_range_examples
    ELSE <<>>

\* C24: the format, range and value-set checks ignore nulls: on an existing
\* column the check passes exactly when no non-null value is invalid (range:
\* below min_val or above max_val, either bound optional), total_checked is the
\* number of non-null values, a column without non-null values passes with
\* total_checked = 0, and at most 5 invalid examples are captured.
C24_ChecksIgnoreNulls ==
    ConteoHecho =>
        LET col == Columna(validador.df, Ultimo.column)
            no_nulos == {i \in DOMAIN col : col[i] # NaN}
        IN /\ Ultimo.passed <=> \A i \in no_nulos : ~ValorInvalido(col[i])
           /\ Ultimo.total_checked = Cardinality(no_nulos)
           /\ no_nulos = {} => Ultimo.passed /\ Ultimo.total_checked = 0
           /\ Len(Ejemplos) <= 5
           /\ \A k \in DOMAIN Ejemplos :
                 \E i \in no_nulos : col[i][1] = Ejemplos[k] /\ ValorInvalido(col[i])

\* a range check that found six values out of range beside a null, and kept
\* the first five
C24_Witness ==
    /\ ConteoHecho
    /\ Ultimo.rule = "range"
    /\ \E i \in 1..Len(validador.df.rows) : validador.df.rows[i].edad = NaN
    /\ ~Ultimo.passed
    /\ Ultimo.out_of_range_count > 5
    /\ Len(Ejemplos) = 5


\* ---------------------------------------------------------------- C25
\* the last return is that of validate_unique
UnicoHecho ==
    /\ "df" \in DOMAIN validador /\ notna(validador.ultimo)
    /\ "rule" \in DOMAIN Ultimo /\ Ultimo.rule = "unique"

\* C25: validate_unique passes exactly when no two rows of the column hold the
\* same value; duplicate_count is the number of rows minus the number of
\* distinct values and passed is duplicate_count = 0. Two nulls are read here
\* as the same value; a single null among distinct values already fails.
C25_UniqueExact ==
    UnicoHecho =>
        LET col == Columna(validador.df, Ultimo.column)
        IN /\ Ultimo.passed <=> \A i, j \in DOMAIN col : i # j => col[i] # col[j]
           /\ Ultimo.duplicate_count = Len(col) - Cardinality({col[i] : i \in DOMAIN col})
           /\ Ultimo.passed <=> Ultimo.duplicate_count = 0


\* ---------------------------------------------------------------- C26
\* the rule that year-a-b selects: 1 (a > 12, b <= 12), 2 (a <= 12, b > 12),
\* 3 (both <= 12), 0 when both are above 12
ReglaDe(a, b) ==
    IF a > 12 /\ b <= 12 THEN 1
    ELSE IF a <= 12 /\ b > 12 THEN 2
    ELSE IF a <= 12 /\ b <= 12 THEN 3
    ELSE 0

\* the month and day the rule selects do not form a calendar date of year y
NoConstruible(y, a, b) ==
    CASE ReglaDe(a, b) = 1 -> ~IsCalendarDate(y, b, Min(a, 31))
      [] ReglaDe(a, b) \in {2, 3} -> ~IsCalendarDate(y, a, Min(b, 31))
      [] OTHER -> FALSE

\* the tags of the form ERROR_* among the tags of the function
EtiquetasError == {"ERROR_CORRECCION", "ERROR_VALIDACION"}

\* C26 as stated: when the components selected by a rule cannot be built into
\* a calendar date the result is a null date, the ambiguity flag of the rule
\* (true for the both-<=-12 rule) and a tag of the form ERROR_*.
C26_ErrorTag ==
    \A y \in Anios, sep \in SepsFecha, a \in Comps, b \in Comps :
        (Llamada /\ fecha_str = Texto(FmtFecha(y, sep, a, b)) /\ NoConstruible(y, a, b)) =>
            /\ Res.fecha = NaN
            /\ Res.es_ambigua <=> ReglaDe(a, b) = 3
            /\ Res.motivo \in EtiquetasError

\* C26 amended: the result is a null date, never flagged ambiguous, with the
\* tag ERROR_CORRECCION for the swapped rule, ERROR_VALIDACION for the
\* month-day rule and AMBIGUA_NO_VALIDA for the both-<=-12 rule.
C26_FailureTags ==
    \A y \in Anios, sep \in SepsFecha, a \in Comps, b \in Comps :
        (Llamada /\ fecha_str = Texto(FmtFecha(y, sep, a, b)) /\ NoConstruible(y, a, b)) =>
            Res = Resultado(NaN, FALSE,
                            CASE ReglaDe(a, b) = 1 -> "ERROR_CORRECCION"
                              [] ReglaDe(a, b) = 2 -> "ERROR_VALIDACION"
                              [] ReglaDe(a, b) = 3 -> "AMBIGUA_NO_VALIDA")

\* "2024/00/05", month 0 under the both-<=-12 rule, was resolved
C26_Witness ==
    /\ Llamada
    /\ fecha_str = Texto(<<"2", "0", "2", "4", "/", "0", "0", "/", "0", "5">>)
    /\ Res = Resultado(NaN, FALSE, "AMBIGUA_NO_VALIDA")


\* ---------------------------------------------------------------- C28
\* C28: the cleaner's future-date limit and the validator's agree: every date
\* the cleaner keeps (not later than now + 2 calendar years) is not counted as
\* a future date by validate_date_coherence with max_future_days = 365*2 run
\* at the same time, so a cleaned table reports future_dates = 0. Two calendar
\* years that include a 29 February are 731 days.
C28_LimitsAgree ==
    resultados.op = "coherencia_fechas" => resultados.res.future_dates = 0

\* ---------------------------------------------------------------- C29
\* C29: after the appointment pass every appointment with fecha_ambigua = true
\* has a non-null fecha_cita. An ambiguous date assumed month-day and then
\* rejected as too far in the future keeps its flag.
C29_AmbiguousKept ==
    paso.citas =>
        \A i \in 1..Len(df_citas.rows) :
            df_citas.rows[i].fecha_ambigua = TRUE => df_citas.rows[i].fecha_cita # NaN


\* ---------------------------------------------------------------- C30
Retornado == orquestador.pc = "terminado" /\ "retorno" \in DOMAIN orquestador

\* C30: run executes the stage scripts in the order 01_exploratorio,
\* 02_limpieza, 03_validaciones, 04_informe, it returns true (process exit code
\* 0) only if every executed stage script exited with return code 0, and no
\* stage is executed after 02_limpieza has failed. A failure of a stage other
\* than 02_limpieza leaves the return value true.
C30_RunOrderAndResult ==
    Retornado =>
        LET intentos == orquestador.intentos
        IN /\ Len(intentos) <= Len(script_order)
           /\ \A k \in DOMAIN intentos : intentos[k].script = script_order[k]
           /\ orquestador.retorno <=> orquestador.exit_code = 0
           /\ orquestador.retorno =>
                  \A k \in DOMAIN intentos :
                      intentos[k].desenlace = [tipo |-> "salida", return_code |-> 0]
           /\ \A k \in DOMAIN intentos :
                  (/\ intentos[k].script = "02_limpieza.py"
                   /\ intentos[k].desenlace # [tipo |-> "salida", return_code |-> 0])
                      => k = Len(intentos)

====
